---- MODULE Spec2Model ----
(***************************************************************************)
(* The Retell voice-call session of crowndesk-ai-service: the WebSocket    *)
(* event loop (routers/retell.py), its turn handler generate_llm_response, *)
(* the function dispatcher execute_function, the scheduling/patient        *)
(* operations of RetellService (services/retell_service.py) and the        *)
(* HIPAA guardrails (services/guardrails.py).                              *)
(*                                                                         *)
(* One action handles one inbound frame to completion, as the single       *)
(* cooperative task of a call does. Everything the session does to its     *)
(* collaborators (frames read and written on the socket, LLM requests,     *)
(* dispatcher runs, database queries) is appended, in program order, to    *)
(* the variable trace. Writes to the socket succeed while the call is      *)
(* connected; a disconnect is observed at the next receive.                *)
(***************************************************************************)
EXTENDS Integers, Sequences, FiniteSets, TLC

VARIABLES
    phase,          \* position of retell_websocket: "accepted", "loop", "closed"
    call_state,     \* the call_state dict of retell_websocket
    request_data,   \* the last decoded inbound frame (None before the first)
    received,       \* number of frames read from the socket
    trace,          \* interactions with the socket, the LLM, the dispatcher, the database
    next_uuid,      \* source of uuid4() values
    appointments,   \* rows of the appointments table
    approvals,      \* rows of the approvals table, in insertion order
    input,          \* arguments of a service function called on its own (None in a call)
    returned,       \* what that function returned (None until it has)
    monitor,        \* the ConversationSafetyMonitor of a conversation (None in a call)
    stream_phase,   \* position of the Twilio websocket_endpoint: "accepted", "closed"
    conversation,   \* its local ConversationState: <<>> for None, <<state>> once started
    media_received, \* number of frames it has read from Twilio
    media_sent,     \* the audio frames it has written to Twilio, by what they speak
    registrations   \* the registrations the backend created at its voice-intake endpoint

\* The router constructs no monitor and calls the functions below only through
\* the session; these variables belong to the specifications of single services.
unit == <<input, returned, monitor>>

\* The Twilio media-stream agent (routers/voice_agent.py) is a second endpoint
\* with its own socket and its own state.
twilio == <<stream_phase, conversation, media_received, media_sent, registrations>>

session == <<phase, call_state, request_data, received, trace, next_uuid,
             appointments, approvals>>

vars == <<phase, call_state, request_data, received, trace, next_uuid,
          appointments, approvals, input, returned, monitor,
          stream_phase, conversation, media_received, media_sent, registrations>>

(***************************************************************************)
(* Bounds of the model.                                                    *)
(***************************************************************************)
MaxEvents == 2          \* inbound frames handled in one call

(***************************************************************************)
(* Python values.                                                          *)
(***************************************************************************)
None == "None"

\* The value of the variable returned before and after the function has returned.
Pending == [done |-> FALSE]

Return(value) == [done |-> TRUE, value |-> value]

\* A string is a slice [lo, hi) of a named text; its length is hi - lo.
Str(text, len) == [text |-> text, lo |-> 0, hi |-> len]

StrLen(s) == s.hi - s.lo

\* s[i:j] of Python, for 0 <= i <= j.
Slice(s, i, j) ==
    LET lo == IF s.lo + i < s.hi THEN s.lo + i ELSE s.hi
        hi == IF s.lo + j < s.hi THEN s.lo + j ELSE s.hi
    IN  [text |-> s.text, lo |-> lo, hi |-> hi]

(***************************************************************************)
(* services/guardrails.py: HIPAAGuardrails.                                *)
(* A user message is the set of phrases it contains; the empty set is the  *)
(* empty string. Each regular expression of a pattern list is stood for by *)
(* one phrase it matches, and re.search(pattern, message) by membership.   *)
(***************************************************************************)
emergency_patterns == <<"chest pain", "severe pain", "emergency", "choking", "suicide">>

diagnosis_patterns == <<"diagnose", "could it be cancer", "why do i have pain",
                        "should i take medication", "prescription">>

coverage_guarantee_patterns == <<"will insurance cover", "how much will my insurance pay",
                                 "guarantee coverage", "exactly how much will i pay">>

\* A JSON value of the transcript that is truthy and not a string (a number).
NonStr == "<non-str>"

IsString(message) == NonStr \notin message

re_search(pattern, message) == pattern \in message

AnyMatch(patterns, message) ==
    \E i \in 1..Len(patterns) : re_search(patterns[i], message)

blocked_responses(kind) == Str(kind, 200)

\* str.lower() on one phrase and on a message.
LowerPhrase(phrase) ==
    CASE phrase = "CHEST PAIN" -> "chest pain"
      [] phrase = "Prescription" -> "prescription"
      [] phrase = "Guarantee Coverage" -> "guarantee coverage"
      [] OTHER -> phrase

lower(message) == { LowerPhrase(phrase) : phrase \in message }

\* A guardrail engine that looks for diagnosis requests first.
check_message_diagnosis_first(message) ==
    LET message_lower == lower(message)
    IN  IF AnyMatch(diagnosis_patterns, message_lower)
        THEN [blocked |-> TRUE, guardrail_type |-> "diagnosis",
              message |-> blocked_responses("diagnosis"), severity |-> "medium"]
        ELSE IF AnyMatch(emergency_patterns, message_lower)
        THEN [blocked |-> TRUE, guardrail_type |-> "emergency",
              message |-> blocked_responses("emergency"), severity |-> "high"]
        ELSE IF AnyMatch(coverage_guarantee_patterns, message_lower)
        THEN [blocked |-> TRUE, guardrail_type |-> "coverage_guarantee",
              message |-> blocked_responses("coverage_guarantee"), severity |-> "low"]
        ELSE [blocked |-> FALSE, guardrail_type |-> None,
              message |-> None, severity |-> None]

\* A guardrail engine that lets every message through.
check_message_off(message) ==
    [blocked |-> FALSE, guardrail_type |-> None, message |-> None, severity |-> None]

check_message(message) ==
    LET message_lower == lower(message)
    IN  IF AnyMatch(emergency_patterns, message_lower)
        THEN [blocked |-> TRUE, guardrail_type |-> "emergency",
              message |-> blocked_responses("emergency"), severity |-> "high"]
        ELSE IF AnyMatch(diagnosis_patterns, message_lower)
        THEN [blocked |-> TRUE, guardrail_type |-> "diagnosis",
              message |-> blocked_responses("diagnosis"), severity |-> "medium"]
        ELSE IF AnyMatch(coverage_guarantee_patterns, message_lower)
        THEN [blocked |-> TRUE, guardrail_type |-> "coverage_guarantee",
              message |-> blocked_responses("coverage_guarantee"), severity |-> "low"]
        ELSE [blocked |-> FALSE, guardrail_type |-> None,
              message |-> None, severity |-> None]

(***************************************************************************)
(* The data store read through asyncpg: one tenant, its patients (newest   *)
(* first, as ORDER BY created_at DESC returns them), its one active        *)
(* provider with the working hours of the day, and the patients holding an *)
(* insurance policy. Times of day are minutes after midnight.              *)
(***************************************************************************)
patients ==
    << [id |-> "p1", first_name |-> "ann", last_name |-> "lee", dob |-> "D1990"],
       [id |-> "p2", first_name |-> "bob", last_name |-> "ray", dob |-> "D1985"] >>

NoRow == [id |-> None]

providers == << [id |-> "dr1", name |-> "dr kim"] >>

\* working_hours[day] of the provider, by date; a day may have no entry.
working_hours(date) ==
    IF date = "Monday" THEN [configured |-> TRUE, start |-> 9 * 60, end |-> 10 * 60 + 30]
    ELSE [configured |-> FALSE]

insurance_policies == {"p1"}

InitialAppointments ==
    { [id |-> "a1", patient_id |-> "p1", provider_id |-> "dr1", date |-> "Monday",
       start_time |-> 9 * 60, end_time |-> 9 * 60 + 30, duration |-> 30,
       status |-> "scheduled"],
      [id |-> "a2", patient_id |-> "p2", provider_id |-> "dr1", date |-> "Monday",
       start_time |-> 9 * 60 + 30, end_time |-> 10 * 60, duration |-> 30,
       status |-> "cancelled"] }

\* The ordinal, within one dispatched function, of the query that raises (0: none).
Raises(n, fail_at) == n = fail_at

(***************************************************************************)
(* services/retell_service.py: RetellService helpers.                      *)
(***************************************************************************)
ValueError == "ValueError"

\* datetime.strptime over the three accepted formats: the day a string names.
_parse_date(value) ==
    CASE value = "2026-01-05" -> "Monday"
      [] value = "01/05/2026" -> "Monday"
      [] value = "01-05-2026" -> "Monday"
      [] value = "2026-01-04" -> "Sunday"
      [] value = "1990-01-01" -> "D1990"
      [] value = "01/01/1990" -> "D1990"
      [] value = "1985-05-05" -> "D1985"
      [] OTHER -> ValueError

\* re.sub(r"\s+", " ", name.strip()).split(" "): first and last word.
_normalize_name(name) ==
    CASE name = "ann lee" -> [first |-> "ann", last |-> "lee"]
      [] name = " ann   lee " -> [first |-> "ann", last |-> "lee"]
      [] name = "ann" -> [first |-> "ann", last |-> ""]
      [] name = "bob ray" -> [first |-> "bob", last |-> "ray"]
      [] name = "an le" -> [first |-> "an", last |-> "le"]
      [] name = "zed orr" -> [first |-> "zed", last |-> "orr"]
      [] name = "" -> [first |-> "", last |-> ""]

\* column ILIKE '%pattern%'
ILike(column, pattern) ==
    \/ pattern = ""
    \/ pattern = column
    \/ <<pattern, column>> \in {<<"an", "ann">>, <<"le", "lee">>}

\* _find_patient: [patient, queries]. It never raises: a missing name, an
\* unparseable date of birth and a failed query all give no patient.
_find_patient(patient_name, patient_dob, n, fail_at) ==
    IF patient_name = None
    THEN [patient |-> NoRow, queries |-> <<>>]
    ELSE IF patient_dob \notin {None, ""} /\ _parse_date(patient_dob) = ValueError
    THEN [patient |-> NoRow, queries |-> <<>>]
    ELSE IF Raises(n + 1, fail_at)
    THEN [patient |-> NoRow, queries |-> <<"patients">>]
    ELSE
        LET name_parts == _normalize_name(patient_name)
            dob_value == IF patient_dob \in {None, ""} THEN None
                         ELSE _parse_date(patient_dob)
            Match(r) == /\ (dob_value = None \/ r.dob = dob_value)
                        /\ \/ ILike(r.first_name, name_parts.first)
                              /\ ILike(r.last_name, name_parts.last)
                           \/ ILike(r.first_name, name_parts.first)
                              /\ name_parts.last = ""
            rows == SelectSeq(patients, Match)
        IN  [patient |-> IF rows = <<>> THEN NoRow ELSE rows[1],
             queries |-> <<"patients">>]

\* strftime("%I:%M %p").lstrip("0"): the 12-hour clock reading of a time of day.
FormatTime(t) ==
    [hour |-> IF (t \div 60) % 12 = 0 THEN 12 ELSE (t \div 60) % 12,
     minute |-> t % 60,
     pm |-> (t \div 60) >= 12]

\* strptime(time_str, "%I:%M %p"), as _combine_date_time reads a slot's time.
_combine_date_time(time_str) ==
    ((time_str.hour % 12) + (IF time_str.pm THEN 12 ELSE 0)) * 60 + time_str.minute

RECURSIVE SlotLoopClosed(_, _, _, _)
\* A slot loop for which an appointment that only touches a slot is a conflict.
SlotLoopClosed(slot_start, end_time, duration_minutes, rows) ==
    IF slot_start + duration_minutes <= end_time
    THEN
        LET slot_end == slot_start + duration_minutes
            conflict == \E appt \in rows :
                            slot_start <= appt.end_time /\ slot_end >= appt.start_time
            rest == SlotLoopClosed(slot_start + 15, end_time, duration_minutes, rows)
        IN  IF ~conflict
            THEN <<[time |-> FormatTime(slot_start), available |-> TRUE,
                    duration |-> duration_minutes]>> \o rest
            ELSE rest
    ELSE <<>>

RECURSIVE SlotLoop(_, _, _, _)
\* The while loop of _calculate_slots over the day's appointment rows.
SlotLoop(slot_start, end_time, duration_minutes, rows) ==
    IF slot_start + duration_minutes <= end_time
    THEN
        LET slot_end == slot_start + duration_minutes
            conflict == \E appt \in rows :
                            slot_start < appt.end_time /\ slot_end > appt.start_time
            rest == SlotLoop(slot_start + 15, end_time, duration_minutes, rows)
        IN  IF ~conflict
            THEN <<[time |-> FormatTime(slot_start), available |-> TRUE,
                    duration |-> duration_minutes]>> \o rest
            ELSE rest
    ELSE <<>>

\* _calculate_slots, after its query returned: the rows it selects and the loop.
_calculate_slots(appts, provider_id, date_obj, start_time, end_time, duration_minutes) ==
    LET rows == {a \in appts : /\ a.provider_id = provider_id
                               /\ a.status \notin {"cancelled", "no_show"}
                               /\ a.date = date_obj}
    IN  SlotLoop(start_time, end_time, duration_minutes, rows)

\* check_availability: [result, queries]. n queries were issued before it.
check_availability(appts, date, n, fail_at) ==
    LET failed(qs) == [result |-> [date |-> date, slots |-> <<>>,
                                   message |-> "no live availability"],
                       queries |-> qs]
        date_obj == IF date = None THEN ValueError ELSE _parse_date(date)
    IN  IF date_obj = ValueError THEN failed(<<>>)
        ELSE IF Raises(n + 1, fail_at) THEN failed(<<"providers">>)
        ELSE IF ~working_hours(date_obj).configured
        THEN [result |-> [date |-> date, slots |-> <<>>,
                          message |-> "availability not configured"],
              queries |-> <<"providers">>]
        ELSE IF Raises(n + 2, fail_at) THEN failed(<<"providers", "appointments">>)
        ELSE [result |-> [date |-> date, provider |-> providers[1].name,
                          slots |-> _calculate_slots(appts, providers[1].id, date_obj,
                                                     working_hours(date_obj).start,
                                                     working_hours(date_obj).end, 30),
                          next_available |-> <<>>],
              queries |-> <<"providers", "appointments">>]

\* The day datetime.utcnow() falls on.
Today == "Monday"

\* _find_appointment_by_date, after its query returned: the patient's latest
\* appointment of the day that is neither cancelled nor a no-show.
_find_appointment_by_date(appts, patient_id, date_obj) ==
    LET rows == {a \in appts : /\ a.patient_id = patient_id
                               /\ a.date = date_obj
                               /\ a.status \notin {"cancelled", "no_show"}}
    IN  IF rows = {} THEN NoRow
        ELSE CHOOSE a \in rows : \A b \in rows : b.start_time <= a.start_time

\* preferred_time.lower() in slot["time"].lower()
TimeContains(time, preferred_time) ==
    CASE preferred_time = "9:45" -> time.hour = 9 /\ time.minute = 45
      [] preferred_time = "10:00 am" -> time.hour = 10 /\ time.minute = 0 /\ ~time.pm
      [] preferred_time = "morning" -> FALSE

\* _match_slot, and the same search written inline in book_appointment.
_match_slot(slots, preferred_time) ==
    LET hits == SelectSeq(slots, LAMBDA slot : TimeContains(slot.time, preferred_time))
    IN  IF hits = <<>> THEN slots[1] ELSE hits[1]

\* A backend that writes the appointment itself instead of asking for approval.
WriteAppointment(db, appointment_id, patient_id, provider_id, date, start_time, end_time, status, action) ==
    [appointments |-> db.appointments \cup
        {[id |-> appointment_id, patient_id |-> patient_id, provider_id |-> provider_id,
          date |-> date, start_time |-> start_time, end_time |-> end_time,
          duration |-> end_time - start_time, status |-> status]},
     approvals |-> db.approvals]

\* The INSERT of _create_appointment_approval: one approvals row, status pending.
_create_appointment_approval(db, appointment_id, patient_id, provider_id, date, start_time, end_time, status, action) ==
    [appointments |-> db.appointments,
     approvals |-> Append(db.approvals,
        [entity_type |-> "appointment", entity_id |-> appointment_id,
         after_state |-> [id |-> appointment_id, patientId |-> patient_id,
                          providerId |-> provider_id, date |-> date,
                          startTime |-> start_time, endTime |-> end_time,
                          status |-> status],
         ai_rationale |-> action, status |-> "pending"])]

\* What a service operation hands back: its result map, the queries it issued,
\* in order, and the tables after it.
Outcome(result, queries, db) == [result |-> result, queries |-> queries, db |-> db]

Failure(message) == [success |-> FALSE, message |-> message]

book_appointment(db, patient_name, patient_dob, preferred_date, preferred_time, appointment_id, fail_at) ==
    LET Book(found, availability) ==
            LET q2 == found.queries \o availability.queries
                slots == availability.result.slots
                selected_slot == IF preferred_time = None THEN slots[1]
                                 ELSE _match_slot(slots, preferred_time)
                start_time == _combine_date_time(selected_slot.time)
            IN  IF found.patient = NoRow
                THEN Outcome(Failure("patient not found"), found.queries, db)
                ELSE IF slots = <<>>
                THEN Outcome(Failure("no openings"), q2, db)
                ELSE IF Raises(Len(q2) + 1, fail_at)
                THEN Outcome(Failure("scheduling system trouble"),
                             q2 \o <<"providers">>, db)
                ELSE IF Raises(Len(q2) + 2, fail_at)
                THEN Outcome(Failure("scheduling system trouble"),
                             q2 \o <<"providers", "approvals">>, db)
                ELSE Outcome([success |-> TRUE,
                              message |-> "scheduling request submitted",
                              appointment |-> [date |-> preferred_date,
                                               time |-> selected_slot.time,
                                               confirmation_pending |-> TRUE]],
                             q2 \o <<"providers", "approvals">>,
                             _create_appointment_approval(db, appointment_id,
                                 found.patient.id, providers[1].id,
                                 _parse_date(preferred_date), start_time,
                                 start_time + selected_slot.duration, "scheduled",
                                 "create"))
        WithPatient(found) ==
            Book(found, check_availability(db.appointments, preferred_date,
                                           Len(found.queries), fail_at))
    IN  WithPatient(_find_patient(patient_name, patient_dob, 0, fail_at))

reschedule_appointment(db, patient_name, patient_dob, current_date, new_date, new_time, fail_at) ==
    LET Reschedule(found, date_obj, appointment, availability) ==
            LET n1 == Len(found.queries)
                q2 == found.queries \o <<"appointments">>
                q3 == q2 \o availability.queries
                slots == availability.result.slots
                selected_slot == IF new_time \in {None, ""} THEN slots[1]
                                 ELSE _match_slot(slots, new_time)
                start_time == _combine_date_time(selected_slot.time)
            IN  IF found.patient = NoRow
                THEN Outcome(Failure("patient not verified"), found.queries, db)
                ELSE IF date_obj = ValueError
                THEN Outcome(Failure("scheduling system trouble"), found.queries, db)
                ELSE IF Raises(n1 + 1, fail_at)
                THEN Outcome(Failure("scheduling system trouble"), q2, db)
                ELSE IF appointment = NoRow
                THEN Outcome(Failure("appointment not found"), q2, db)
                ELSE IF slots = <<>>
                THEN Outcome(Failure("fully booked"), q3, db)
                ELSE IF Raises(Len(q3) + 1, fail_at)
                THEN Outcome(Failure("scheduling system trouble"),
                             q3 \o <<"approvals">>, db)
                ELSE Outcome([success |-> TRUE,
                              message |-> "reschedule request submitted"],
                             q3 \o <<"approvals">>,
                             _create_appointment_approval(db, appointment.id,
                                 found.patient.id, appointment.provider_id,
                                 _parse_date(new_date), start_time,
                                 start_time + appointment.duration, appointment.status,
                                 "reschedule"))
        WithDate(found, date_obj) ==
            Reschedule(found, date_obj,
                       _find_appointment_by_date(db.appointments, found.patient.id,
                                                 date_obj),
                       check_availability(db.appointments, new_date,
                                          Len(found.queries) + 1, fail_at))
    IN  WithDate(_find_patient(patient_name, patient_dob, 0, fail_at),
                 IF current_date \in {None, ""} THEN Today ELSE _parse_date(current_date))

cancel_appointment(db, patient_name, patient_dob, appointment_date, fail_at) ==
    LET Cancel(found, date_obj, appointment) ==
            LET n1 == Len(found.queries)
                q2 == found.queries \o <<"appointments">>
            IN  IF found.patient = NoRow
                THEN Outcome(Failure("patient not verified"), found.queries, db)
                ELSE IF date_obj = ValueError
                THEN Outcome(Failure("processing trouble"), found.queries, db)
                ELSE IF Raises(n1 + 1, fail_at)
                THEN Outcome(Failure("processing trouble"), q2, db)
                ELSE IF appointment = NoRow
                THEN Outcome(Failure("appointment not found"), q2, db)
                ELSE IF Raises(n1 + 2, fail_at)
                THEN Outcome(Failure("processing trouble"), q2 \o <<"approvals">>, db)
                ELSE Outcome([success |-> TRUE,
                              message |-> "cancellation request submitted"],
                             q2 \o <<"approvals">>,
                             _create_appointment_approval(db, appointment.id,
                                 found.patient.id, appointment.provider_id,
                                 appointment.date, appointment.start_time,
                                 appointment.end_time, "cancelled", "cancel"))
        WithDate(found, date_obj) ==
            Cancel(found, date_obj,
                   _find_appointment_by_date(db.appointments, found.patient.id, date_obj))
    IN  WithDate(_find_patient(patient_name, patient_dob, 0, fail_at),
                 IF appointment_date \in {None, ""} THEN Today
                 ELSE _parse_date(appointment_date))

lookup_patient(db, patient_name, patient_dob, fail_at) ==
    LET Lookup(patient) ==
            IF patient.patient # NoRow
            THEN Outcome([found |-> TRUE, patient_id |-> patient.patient.id,
                          message |-> "record found"], patient.queries, db)
            ELSE Outcome([found |-> FALSE, message |-> "record not found"],
                         patient.queries, db)
    IN  Lookup(_find_patient(patient_name, patient_dob, 0, fail_at))

get_insurance_info(db, patient_name, patient_dob, fail_at) ==
    LET Insurance(found) ==
            LET q2 == found.queries \o <<"insurance_policies">>
                has_insurance == found.patient.id \in insurance_policies
            IN  IF found.patient = NoRow
                THEN Outcome([has_insurance |-> None, message |-> "record not confirmed"],
                             found.queries, db)
                ELSE IF Raises(Len(found.queries) + 1, fail_at)
                THEN Outcome([has_insurance |-> None, message |-> "insurance trouble"],
                             q2, db)
                ELSE Outcome([has_insurance |-> has_insurance,
                              message |-> IF has_insurance THEN "insurance on file"
                                          ELSE "no insurance on file"], q2, db)
    IN  Insurance(_find_patient(patient_name, patient_dob, 0, fail_at))

(***************************************************************************)
(* Entries of trace.                                                       *)
(***************************************************************************)
Send(event) == [io |-> "send", event |-> event]

Recv(frame) == [io |-> "recv", frame |-> frame]

LLMCall(messages) == [io |-> "llm", messages |-> messages]

Guard == [io |-> "check_message"]

Dispatch(name) == [io |-> "dispatch", name |-> name]

\* A query on a table, and whether it raised.
Query(table, raised) == [io |-> "db", table |-> table, raised |-> raised]

\* The queries of one dispatched function; the fail_at-th one raises.
Queries(tables, fail_at) ==
    [i \in 1..Len(tables) |-> Query(tables[i], Raises(i, fail_at))]

(***************************************************************************)
(* services/ai_orchestrator.py: AIOrchestrator.generate_voice_response.    *)
(* completion is what the chat-completion request does: it returns text    *)
(* ("content"), returns a tool call ("tool"), or raises ("error": the API  *)
(* call failed or the tool arguments were not JSON). The except clause     *)
(* turns a raise into the fixed apology, so the method never raises.       *)
(***************************************************************************)
NoFunctionCall == [present |-> FALSE]

generate_voice_response(completion) ==
    CASE completion.kind = "content" ->
            [content |-> completion.content, function_call |-> NoFunctionCall]
      [] completion.kind = "tool" ->
            [content |-> Str("", 0),
             function_call |-> [present |-> TRUE, name |-> completion.name,
                                arguments |-> completion.arguments]]
      [] completion.kind = "error" ->
            [content |-> Str("moment of difficulty", 77),
             function_call |-> NoFunctionCall]

(***************************************************************************)
(* routers/retell.py: execute_function.                                    *)
(* func_args is [is_dict, dict]: the LLM's arguments decode to a JSON      *)
(* object, or to another JSON value, on which .get raises AttributeError.  *)
(***************************************************************************)
Args(dict) == [is_dict |-> TRUE, dict |-> dict]

NotADict == [is_dict |-> FALSE]

\* func_args.get(key)
Get(func_args, key) ==
    IF key \in DOMAIN func_args.dict THEN func_args.dict[key] ELSE None

Executed(result, cs, queries, db) ==
    [result |-> result, call_state |-> cs, queries |-> queries, db |-> db]

\* The except clause of execute_function: {"error": str(e)}.
Caught(cs, db) == Executed([error |-> "exception"], cs, <<>>, db)

FromService(outcome, cs) == Executed(outcome.result, cs, outcome.queries, outcome.db)

\* check_availability only reads: the tables are as they were.
WithDb(r, db) == Outcome(r.result, r.queries, db)

\* A dispatcher without the identity gate of get_insurance_info.
VerifiedUnchecked(cs) == TRUE

\* call_state.get("patient_verified")
Verified(cs) == cs.patient_verified

\* A dispatcher that marks the caller verified whatever the lookup found.
MarkVerifiedAnyway(cs, result) ==
    [cs EXCEPT !.patient_verified = TRUE,
               !.patient_id = IF result.found THEN result.patient_id ELSE None]

\* Mark patient as verified in call state: only when the result says found.
MarkVerified(cs, result) ==
    IF result.found
    THEN [cs EXCEPT !.patient_verified = TRUE, !.patient_id = result.patient_id]
    ELSE cs

execute_function(func_name, func_args, cs, db, uuid, fail_at) ==
    CASE func_name = "book_appointment" ->
            IF ~func_args.is_dict THEN Caught(cs, db)
            ELSE FromService(book_appointment(db, Get(func_args, "patient_name"),
                    Get(func_args, "patient_dob"), Get(func_args, "preferred_date"),
                    Get(func_args, "preferred_time"), uuid, fail_at), cs)
      [] func_name = "check_availability" ->
            IF ~func_args.is_dict THEN Caught(cs, db)
            ELSE FromService(
                    WithDb(check_availability(db.appointments, Get(func_args, "date"),
                                              0, fail_at), db), cs)
      [] func_name = "reschedule_appointment" ->
            IF ~func_args.is_dict THEN Caught(cs, db)
            ELSE FromService(reschedule_appointment(db, Get(func_args, "patient_name"),
                    Get(func_args, "patient_dob"),
                    Get(func_args, "current_appointment_date"),
                    Get(func_args, "new_preferred_date"),
                    Get(func_args, "new_preferred_time"), fail_at), cs)
      [] func_name = "cancel_appointment" ->
            IF ~func_args.is_dict THEN Caught(cs, db)
            ELSE FromService(cancel_appointment(db, Get(func_args, "patient_name"),
                    Get(func_args, "patient_dob"), Get(func_args, "appointment_date"),
                    fail_at), cs)
      [] func_name = "lookup_patient" ->
            IF ~func_args.is_dict THEN Caught(cs, db)
            ELSE LET Looked(r) == FromService(r, MarkVerified(cs, r.result))
                 IN  Looked(lookup_patient(db, Get(func_args, "patient_name"),
                                           Get(func_args, "patient_dob"), fail_at))
      [] func_name = "get_insurance_info" ->
            IF ~Verified(cs)
            THEN Executed([error |-> "Patient identity not verified"], cs, <<>>, db)
            ELSE IF ~func_args.is_dict THEN Caught(cs, db)
            ELSE FromService(get_insurance_info(db, Get(func_args, "patient_name"),
                    Get(func_args, "patient_dob"), fail_at), cs)
      [] func_name = "transfer_to_human" ->
            IF ~func_args.is_dict
            THEN Caught([cs EXCEPT !.transfer_requested = TRUE], db)
            ELSE Executed([success |-> TRUE, message |-> "Transfer initiated"],
                          [cs EXCEPT !.transfer_requested = TRUE,
                                     !.transfer_reason = Get(func_args, "reason")],
                          <<>>, db)
      [] func_name = "end_call" ->
            Executed([success |-> TRUE, message |-> "Call ended"],
                     [cs EXCEPT !.ended_by_agent = TRUE], <<>>, db)
      [] OTHER ->
            Executed([error |-> "Unknown function"], cs, <<>>, db)

(***************************************************************************)
(* routers/retell.py: the events written to the socket.                    *)
(***************************************************************************)
CHUNK_THRESHOLD == 100

CHUNK_SIZE == 50

BEGIN_MESSAGE == Str("greeting", 104)

ConfigEvent ==
    [response_type |-> "config",
     config |-> [auto_reconnect |-> TRUE, call_details |-> TRUE,
                 transcript_with_tool_calls |-> TRUE]]

\* A controller that answers with the id of the request before.
ResponseOfEarlierRequest(response_id, content, content_complete, end_call, transfer_number) ==
    [response_type |-> "response", response_id |-> response_id - 1,
     content |-> content, content_complete |-> content_complete,
     end_call |-> end_call, transfer_number |-> transfer_number]

\* A "response" event; transfer_number is None where the key is absent.
Response(response_id, content, content_complete, end_call, transfer_number) ==
    [response_type |-> "response", response_id |-> response_id, content |-> content,
     content_complete |-> content_complete, end_call |-> end_call,
     transfer_number |-> transfer_number]

PongEvent == [response_type |-> "ping_pong"]

InvocationEvent(tool_call_id, name, arguments) ==
    [response_type |-> "tool_call_invocation", tool_call_id |-> tool_call_id,
     name |-> name, arguments |-> arguments]

\* A result event that does not name the invocation it answers.
ResultEventUnpaired(tool_call_id, content) ==
    [response_type |-> "tool_call_result", tool_call_id |-> "", content |-> content]

ResultEvent(tool_call_id, content) ==
    [response_type |-> "tool_call_result", tool_call_id |-> tool_call_id,
     content |-> content]

\* A turn whose except clause sends nothing.
NoFallback(response_id) == <<>>

\* The except clause of generate_llm_response.
ErrorFallback(response_id) ==
    <<Send(Response(response_id, Str("trouble", 89), TRUE, FALSE, None))>>

\* A controller that already streams content of exactly the threshold length.
StreamResponseFromThreshold(content, response_id) ==
    IF StrLen(content) >= CHUNK_THRESHOLD
    THEN LET count == (StrLen(content) + CHUNK_SIZE - 1) \div CHUNK_SIZE
         IN  [i \in 1..count |->
                Send(Response(response_id,
                              Slice(content, (i - 1) * CHUNK_SIZE, i * CHUNK_SIZE),
                              i = count, FALSE, None))]
    ELSE <<Send(Response(response_id, content, TRUE, FALSE, None))>>

\* Send response (streaming if content is long).
StreamResponse(content, response_id) ==
    IF StrLen(content) > CHUNK_THRESHOLD
    THEN LET count == (StrLen(content) + CHUNK_SIZE - 1) \div CHUNK_SIZE
         IN  [i \in 1..count |->
                Send(Response(response_id,
                              Slice(content, (i - 1) * CHUNK_SIZE, i * CHUNK_SIZE),
                              i = count, FALSE, None))]
    ELSE <<Send(Response(response_id, content, TRUE, FALSE, None))>>

(***************************************************************************)
(* routers/retell.py: generate_llm_response.                               *)
(***************************************************************************)
\* The system prompt, one message per utterance with content, the reminder.
MessageCount(transcript, is_reminder) ==
    1 + Cardinality({i \in 1..Len(transcript) : transcript[i].content # {}})
      + (IF is_reminder THEN 1 ELSE 0)

\* The content of the last utterance of role user; {} (falsy) when there is none.
LastUserMessage(transcript) ==
    LET users == {i \in 1..Len(transcript) : transcript[i].role = "user"}
    IN  IF users = {} THEN {}
        ELSE transcript[CHOOSE i \in users : \A j \in users : j <= i].content

\* func_args.get(key, default)
GetOr(func_args, key, default) ==
    IF key \in DOMAIN func_args.dict THEN func_args.dict[key] ELSE default

Generated(entries, cs, db) == [entries |-> entries, call_state |-> cs, db |-> db]

\* A controller that also runs the function its follow-up call asks for.
FollowUpResponseChained(messages, follow_up, response_id) ==
    IF generate_voice_response(follow_up).function_call.present
    THEN <<LLMCall(messages + 2),
           Dispatch(generate_voice_response(follow_up).function_call.name),
           LLMCall(messages + 4)>>
         \o StreamResponse(Str("reply", CHUNK_SIZE), response_id)
    ELSE <<LLMCall(messages + 2)>>
         \o StreamResponse(generate_voice_response(follow_up).content, response_id)

\* For other functions, generate follow-up response: the two messages of the
\* function call are appended, the LLM is called once more, and only the
\* content of its answer is used.
FollowUpResponse(messages, follow_up, response_id) ==
    <<LLMCall(messages + 2)>>
    \o StreamResponse(generate_voice_response(follow_up).content, response_id)

\* The branch of generate_llm_response taken when the LLM asks for a function.
HandleFunctionCall(func_call, cs, db, messages, response_id, follow_up, uuid, fail_at) ==
    LET func_name == func_call.name
        func_args == func_call.arguments
        tool_call_id == uuid[1]
        Continue(done) ==
            LET head == <<LLMCall(messages),
                          Send(InvocationEvent(tool_call_id, func_name, func_args)),
                          Dispatch(func_name)>>
                        \o Queries(done.queries, fail_at)
                        \o <<Send(ResultEvent(tool_call_id, done.result))>>
                tail ==
                    IF func_name = "end_call"
                    THEN IF ~func_args.is_dict THEN ErrorFallback(response_id)
                         ELSE <<Send(Response(response_id,
                                              GetOr(func_args, "message", Str("goodbye", 31)),
                                              TRUE, TRUE, None))>>
                    ELSE IF func_name = "transfer_to_human"
                    THEN IF ~func_args.is_dict THEN ErrorFallback(response_id)
                         ELSE <<Send(Response(response_id,
                                              GetOr(func_args, "message", Str("please hold", 48)),
                                              TRUE, FALSE, "+1234567890"))>>
                    ELSE FollowUpResponse(messages, follow_up, response_id)
            IN  Generated(head \o tail, done.call_state, done.db)
    IN  Continue(execute_function(func_name, func_args, cs, db, uuid[2], fail_at))

generate_llm_response(cs, db, transcript, response_id, is_reminder, completion, follow_up, uuid, fail_at) ==
    LET messages == MessageCount(transcript, is_reminder)
        last_user_message == LastUserMessage(transcript)
        llm_response == generate_voice_response(completion)
    IN  IF last_user_message # {} /\ ~IsString(last_user_message)
        THEN Generated(<<Guard>> \o ErrorFallback(response_id), cs, db)
        ELSE IF last_user_message # {} /\ check_message(last_user_message).blocked
        THEN Generated(<<Guard,
                         Send(Response(response_id,
                                       check_message(last_user_message).message,
                                       TRUE, FALSE, None))>>, cs, db)
        ELSE
            LET guard == IF last_user_message # {} THEN <<Guard>> ELSE <<>>
                After(rest) == Generated(guard \o rest.entries, rest.call_state, rest.db)
            IN  After(IF llm_response.function_call.present
                      THEN HandleFunctionCall(llm_response.function_call, cs, db,
                               messages, response_id, follow_up, uuid, fail_at)
                      ELSE Generated(<<LLMCall(messages)>>
                                     \o StreamResponse(llm_response.content, response_id),
                                     cs, db))

(***************************************************************************)
(* routers/retell.py: retell_websocket. One action per inbound frame.      *)
(***************************************************************************)
Utterance(role, content) == [role |-> role, content |-> content]

\* uuid4(), twice: the tool call's id and the id of a booked appointment.
Uuids == <<ToString(next_uuid), ToString(next_uuid + 1)>>

\* The media-stream endpoint right after websocket.accept().
StreamAccepted ==
    /\ stream_phase = "accepted"
    /\ conversation = <<>>
    /\ media_received = 0
    /\ media_sent = <<>>
    /\ registrations = <<>>

\* The session right after websocket.accept().
Accepted ==
    /\ phase = "accepted"
    /\ call_state = [patient_verified |-> FALSE,
                     patient_id |-> None,
                     conversation_history |-> <<>>,
                     function_calls |-> <<>>,
                     last_response_id |-> 0,
                     call_details |-> None,
                     transfer_requested |-> FALSE,
                     transfer_reason |-> None,
                     ended_by_agent |-> FALSE]
    /\ request_data = [interaction_type |-> None]
    /\ received = 0
    /\ trace = <<>>
    /\ next_uuid = 1
    /\ appointments = InitialAppointments
    /\ approvals = <<>>

Init ==
    /\ Accepted
    /\ StreamAccepted
    /\ input = None
    /\ returned = Pending
    /\ monitor = None

\* A controller that greets before it configures the transport.
ConnectGreetingFirst ==
    /\ phase = "accepted"
    /\ phase' = "loop"
    /\ trace' = trace \o <<Send(Response(0, BEGIN_MESSAGE, TRUE, FALSE, None)),
                            Send(ConfigEvent)>>
    /\ UNCHANGED <<call_state, request_data, received, next_uuid, appointments, approvals>>
    /\ UNCHANGED <<unit, twilio>>

\* Send initial config, send begin message, enter the message loop.
Connect ==
    /\ phase = "accepted"
    /\ phase' = "loop"
    /\ trace' = trace \o <<Send(ConfigEvent),
                            Send(Response(0, BEGIN_MESSAGE, TRUE, FALSE, None))>>
    /\ UNCHANGED <<call_state, request_data, received, next_uuid, appointments, approvals>>
    /\ UNCHANGED <<unit, twilio>>

\* A frame was read and decoded into request_data.
Read(frame) ==
    /\ phase = "loop"
    /\ request_data' = frame
    /\ received' = received + 1

PingPong ==
    LET frame == [interaction_type |-> "ping_pong"]
    IN  /\ Read(frame)
        /\ trace' = trace \o <<Recv(frame), Send(PongEvent)>>
        /\ UNCHANGED <<phase, call_state, next_uuid, appointments, approvals>>
        /\ UNCHANGED <<unit, twilio>>

CallDetails(call) ==
    LET frame == [interaction_type |-> "call_details", call |-> call]
    IN  /\ Read(frame)
        /\ call_state' = [call_state EXCEPT !.call_details = call]
        /\ trace' = Append(trace, Recv(frame))
        /\ UNCHANGED <<phase, next_uuid, appointments, approvals>>
        /\ UNCHANGED <<unit, twilio>>

\* A controller that answers a transcript update.
UpdateOnlyAnswering(transcript) ==
    LET frame == [interaction_type |-> "update_only", transcript |-> transcript]
    IN  /\ Read(frame)
        /\ call_state' = [call_state EXCEPT !.conversation_history = transcript]
        /\ trace' = trace \o <<Recv(frame), Guard,
                               Send(Response(0, Str("reply", CHUNK_SIZE), TRUE, FALSE, None))>>
        /\ UNCHANGED <<phase, next_uuid, appointments, approvals>>
        /\ UNCHANGED <<unit, twilio>>

UpdateOnly(transcript) ==
    LET frame == [interaction_type |-> "update_only", transcript |-> transcript]
    IN  /\ Read(frame)
        /\ call_state' = [call_state EXCEPT !.conversation_history = transcript]
        /\ trace' = Append(trace, Recv(frame))
        /\ UNCHANGED <<phase, next_uuid, appointments, approvals>>
        /\ UNCHANGED <<unit, twilio>>

\* response_required and reminder_required: generate_llm_response runs to its end.
ResponseRequired(interaction_type, response_id, transcript, completion, follow_up, fail_at) ==
    LET frame == [interaction_type |-> interaction_type, response_id |-> response_id,
                  transcript |-> transcript]
        cs == [call_state EXCEPT !.conversation_history = transcript,
                                 !.last_response_id = response_id]
        db == [appointments |-> appointments, approvals |-> approvals]
        Finish(turn) ==
            /\ call_state' = turn.call_state
            /\ appointments' = turn.db.appointments
            /\ approvals' = turn.db.approvals
            /\ trace' = trace \o <<Recv(frame)>> \o turn.entries
    IN  /\ Read(frame)
        /\ Finish(generate_llm_response(cs, db, transcript, response_id,
                      interaction_type = "reminder_required", completion, follow_up,
                      Uuids, fail_at))
        /\ next_uuid' = next_uuid + 2
        /\ UNCHANGED phase
        /\ UNCHANGED <<unit, twilio>>

\* A frame with an interaction_type no branch handles: nothing is done.
OtherEvent ==
    LET frame == [interaction_type |-> "agent_interrupt"]
    IN  /\ Read(frame)
        /\ trace' = Append(trace, Recv(frame))
        /\ UNCHANGED <<phase, call_state, next_uuid, appointments, approvals>>
        /\ UNCHANGED <<unit, twilio>>

\* A loop that a frame it cannot decode ends.
InvalidJsonFatal ==
    /\ phase = "loop"
    /\ received' = received + 1
    /\ phase' = "closed"
    /\ trace' = Append(trace, Recv([interaction_type |-> "<invalid json>"]))
    /\ UNCHANGED <<call_state, request_data, next_uuid, appointments, approvals>>
    /\ UNCHANGED <<unit, twilio>>

\* json.loads raises JSONDecodeError: logged, and the loop continues.
InvalidJson ==
    /\ phase = "loop"
    /\ received' = received + 1
    /\ trace' = Append(trace, Recv([interaction_type |-> "<invalid json>"]))
    /\ UNCHANGED <<phase, call_state, request_data, next_uuid, appointments, approvals>>
    /\ UNCHANGED <<unit, twilio>>

\* The frame decodes to a JSON value that is no object: request_data.get raises
\* AttributeError, which only the outer except clause catches; the loop is left.
NotAnObject ==
    /\ phase = "loop"
    /\ received' = received + 1
    /\ phase' = "closed"
    /\ request_data' = [interaction_type |-> "<not an object>"]
    /\ trace' = Append(trace, Recv([interaction_type |-> "<not an object>"]))
    /\ UNCHANGED <<call_state, next_uuid, appointments, approvals>>
    /\ UNCHANGED <<unit, twilio>>

\* receive_text raises WebSocketDisconnect.
Disconnect ==
    /\ phase = "loop"
    /\ phase' = "closed"
    /\ UNCHANGED <<call_state, request_data, received, trace, next_uuid,
                   appointments, approvals>>
    /\ UNCHANGED <<unit, twilio>>

(***************************************************************************)
(* The inputs of a call: transcripts, LLM completions, database failures.  *)
(***************************************************************************)
Hello == Utterance("user", {"hello"})

Transcripts ==
    { <<>>,
      <<Hello>>,
      <<Utterance("user", {"chest pain", "diagnose"}), Utterance("agent", {"hello"})>>,
      <<Utterance("user", {"will insurance cover"}), Hello>>,
      <<Utterance("agent", {"hello"}), Utterance("user", {NonStr})>> }

TextCompletions ==
    { [kind |-> "content", content |-> Str("reply", n)] :
        n \in {CHUNK_THRESHOLD, CHUNK_THRESHOLD + 1} }
    \cup { [kind |-> "error"] }

\* What the LLM says once it has the result of a function.
FollowUps == { [kind |-> "content", content |-> Str("reply", CHUNK_THRESHOLD + 1)] }

Tool(name, arguments) == [kind |-> "tool", name |-> name, arguments |-> arguments]

Ann == [patient_name |-> "ann lee", patient_dob |-> "1990-01-01"]

Zed == [patient_name |-> "zed orr", patient_dob |-> "1990-01-01"]

ToolCompletions ==
    { Tool("book_appointment",
           Args([patient_name |-> "ann lee", patient_dob |-> "1990-01-01",
                 preferred_date |-> "2026-01-05"])),
      Tool("book_appointment",
           Args([patient_name |-> "zed orr", patient_dob |-> "1990-01-01",
                 preferred_date |-> "2026-01-05"])),
      Tool("check_availability", Args([date |-> "2026-01-05"])),
      Tool("reschedule_appointment",
           Args([patient_name |-> "ann lee", patient_dob |-> "01/01/1990",
                 new_preferred_date |-> "01/05/2026", new_preferred_time |-> "9:45"])),
      Tool("cancel_appointment",
           Args([patient_name |-> "ann lee", patient_dob |-> "1990-01-01",
                 appointment_date |-> "2026-01-05"])),
      Tool("cancel_appointment",
           Args([patient_name |-> "bob ray", patient_dob |-> "1985-05-05",
                 appointment_date |-> "2026-01-05"])),
      Tool("lookup_patient", Args(Ann)),
      Tool("lookup_patient", Args(Zed)),
      Tool("get_insurance_info", Args(Ann)),
      Tool("get_insurance_info", NotADict),
      Tool("transfer_to_human",
           Args([reason |-> "asked", message |-> Str("transferring", 20)])),
      Tool("transfer_to_human", NotADict),
      Tool("end_call", Args([message |-> Str("bye", 10)])),
      Tool("end_call", NotADict),
      Tool("get_weather", Args([city |-> "x"])),
      Tool("book_appointment", NotADict) }

\* The most queries one dispatched function issues (book_appointment).
FailPoints == 0..5

TurnTypes == {"response_required", "reminder_required"}

\* The transport numbers its requests; the n-th frame carries response_id n.
NextResponseId == received + 1

TextTurn ==
    \E interaction_type \in TurnTypes, transcript \in Transcripts,
       completion \in TextCompletions :
        ResponseRequired(interaction_type, NextResponseId, transcript, completion,
                         completion, 0)

FunctionTurn ==
    \E completion \in ToolCompletions, follow_up \in FollowUps,
       fail_at \in FailPoints :
        ResponseRequired("response_required", NextResponseId, <<Hello>>, completion,
                         follow_up, fail_at)

\* A call of at most MaxEvents inbound frames.
Next ==
    \/ Connect
    \/ received < MaxEvents /\ PingPong
    \/ received < MaxEvents /\ CallDetails("call-1")
    \/ received < MaxEvents /\ \E transcript \in Transcripts : UpdateOnly(transcript)
    \/ received < MaxEvents /\ TextTurn
    \/ received < MaxEvents /\ FunctionTurn
    \/ received < MaxEvents /\ OtherEvent
    \/ received < MaxEvents /\ InvalidJson
    \/ received < MaxEvents /\ NotAnObject
    \/ Disconnect

Spec == Init /\ [][Next]_vars

(***************************************************************************)
(* A longer call of conversation turns only: text turns, which the         *)
(* guardrails may block, and turns in which the LLM asks for a transfer.   *)
(***************************************************************************)
MaxGuardrailTurns == 4

TransferTurn ==
    \E completion \in {Tool("transfer_to_human",
                            Args([reason |-> "asked",
                                  message |-> Str("transferring", 20)]))},
       follow_up \in FollowUps :
        ResponseRequired("response_required", NextResponseId, <<Hello>>, completion,
                         follow_up, 0)

NextGuardrail ==
    \/ Connect
    \/ received < MaxGuardrailTurns /\ TextTurn
    \/ received < MaxGuardrailTurns /\ TransferTurn
    \/ Disconnect

SpecGuardrail == Init /\ [][NextGuardrail]_vars

(***************************************************************************)
(* Reading the trace. The turn of an inbound frame is the part of the      *)
(* trace from its recv entry up to the next recv entry.                    *)
(***************************************************************************)
IsEvent(entry, response_type) ==
    entry.io = "send" /\ entry.event.response_type = response_type

IsTurnFrame(entry) ==
    entry.io = "recv" /\ entry.frame.interaction_type \in TurnTypes

Frames == {i \in 1..Len(trace) : trace[i].io = "recv"}

TurnEnd(i) ==
    LET later == {j \in Frames : j > i}
    IN  IF later = {} THEN Len(trace)
        ELSE (CHOOSE j \in later : \A k \in later : j <= k) - 1

Turn(i) == (i + 1)..TurnEnd(i)

\* What the step just taken appended to the trace.
Appended == SubSeq(trace', Len(trace) + 1, Len(trace'))

Entries(t, io) == {i \in 1..Len(t) : t[i].io = io}

Events(t, response_type) == {i \in 1..Len(t) : IsEvent(t[i], response_type)}

\* The function whose result the tool_call_result at position i carries.
FunctionOf(i) ==
    LET j == CHOOSE j \in 1..i :
                 /\ IsEvent(trace[j], "tool_call_invocation")
                 /\ trace[j].event.tool_call_id = trace[i].event.tool_call_id
    IN  trace[j].event.name

Succeeded(content) == "success" \in DOMAIN content /\ content.success

Found(content) == "found" \in DOMAIN content /\ content.found

(***************************************************************************)
(* C1. Identity gate of get_insurance_info.                                *)
(***************************************************************************)
NotVerifiedError == [error |-> "Patient identity not verified"]

\* C1: whenever get_insurance_info is dispatched in a session whose
\* patient_verified is false, the result is the error object and the step
\* issues no backend query at all (no patient lookup, no insurance query).
C1_UnverifiedInsuranceRefused ==
    [][ (~call_state.patient_verified
         /\ \E i \in Entries(Appended, "dispatch") :
                Appended[i].name = "get_insurance_info")
        => /\ Entries(Appended, "db") = {}
           /\ \A i \in Events(Appended, "tool_call_result") :
                 Appended[i].event.content = NotVerifiedError
           /\ Events(Appended, "tool_call_result") # {} ]_vars

C1_Witness ==
    /\ ~call_state.patient_verified
    /\ \E i \in Events(trace, "tool_call_result") :
          /\ FunctionOf(i) = "get_insurance_info"
          /\ trace[i].event.content = NotVerifiedError

(***************************************************************************)
(* C2. patient_verified and patient_id.                                    *)
(***************************************************************************)
\* C2: before the connect step patient_verified is false and patient_id is
\* null; patient_verified never goes from true to false; and a step changes
\* patient_verified or patient_id only if it dispatches lookup_patient and the
\* result says found, in which case patient_verified becomes true and
\* patient_id becomes the id of that result.
C2_VerifiedOnlyByLookup ==
    [][ /\ phase = "accepted" =>
              ~call_state.patient_verified /\ call_state.patient_id = None
        /\ call_state.patient_verified => call_state'.patient_verified
        /\ (\/ call_state'.patient_verified # call_state.patient_verified
            \/ call_state'.patient_id # call_state.patient_id)
           => \E i \in Events(Appended, "tool_call_result") :
                 /\ \E d \in Entries(Appended, "dispatch") :
                        d < i /\ Appended[d].name = "lookup_patient"
                 /\ Found(Appended[i].event.content)
                 /\ call_state'.patient_verified
                 /\ call_state'.patient_id = Appended[i].event.content.patient_id
      ]_vars

\* A verified session in which a later lookup found nobody.
C2_Witness ==
    /\ call_state.patient_verified
    /\ call_state.patient_id = "p1"
    /\ \E i, j \in Events(trace, "tool_call_result") :
          /\ i < j
          /\ FunctionOf(i) = "lookup_patient" /\ Found(trace[i].event.content)
          /\ FunctionOf(j) = "lookup_patient" /\ ~Found(trace[j].event.content)

(***************************************************************************)
(* C3. A blocked utterance ends the turn with the canned response.         *)
(***************************************************************************)
IsBlocked(message) ==
    \/ AnyMatch(emergency_patterns, message)
    \/ AnyMatch(diagnosis_patterns, message)
    \/ AnyMatch(coverage_guarantee_patterns, message)

CannedResponses ==
    {blocked_responses(kind) : kind \in {"emergency", "diagnosis", "coverage_guarantee"}}

BlockedTurns ==
    {i \in Frames :
        /\ IsTurnFrame(trace[i])
        /\ IsString(LastUserMessage(trace[i].frame.transcript))
        /\ IsBlocked(LastUserMessage(trace[i].frame.transcript))}

\* C3: in the turn of a response_required or reminder_required frame whose
\* most recent user utterance matches a guardrail pattern, exactly one event
\* is sent, it is a response with a canned guardrail message,
\* content_complete true and end_call false, and the turn holds no LLM call
\* and no function dispatch.
C3_BlockedTurnIsCanned ==
    \A i \in BlockedTurns :
        /\ \A j \in Turn(i) : trace[j].io \notin {"llm", "dispatch", "db"}
        /\ Cardinality({j \in Turn(i) : trace[j].io = "send"}) = 1
        /\ \A j \in Turn(i) :
              trace[j].io = "send" =>
                /\ trace[j].event.response_type = "response"
                /\ trace[j].event.content \in CannedResponses
                /\ trace[j].event.content_complete
                /\ ~trace[j].event.end_call

C3_Witness ==
    \E i \in BlockedTurns :
        /\ trace[i].frame.interaction_type = "reminder_required"
        /\ \E j \in Turn(i) : IsEvent(trace[j], "response")

(***************************************************************************)
(* C4. Every turn is answered.                                             *)
(***************************************************************************)
FallbackText == Str("trouble", 89)

\* The inputs on which response generation raises: a last user utterance
\* whose content is no string, and end_call or transfer_to_human with
\* arguments that are no object.
TurnRaised(t) ==
    \/ /\ LastUserMessage(t[1].frame.transcript) # {}
       /\ ~IsString(LastUserMessage(t[1].frame.transcript))
    \/ \E i \in Events(t, "tool_call_invocation") :
          /\ t[i].event.name \in {"end_call", "transfer_to_human"}
          /\ ~t[i].event.arguments.is_dict

\* C4: the step that handles a response_required or reminder_required frame
\* ends with a sent response whose content_complete is true; when response
\* generation raised, that response is the fixed fallback with end_call
\* false; and the session is still in its message loop afterwards.
C4_TurnAnswered ==
    [][ (Appended # <<>> /\ IsTurnFrame(Appended[1]))
        => LET last == Appended[Len(Appended)]
           IN  /\ IsEvent(last, "response")
               /\ last.event.content_complete
               /\ last.event.response_id = Appended[1].frame.response_id
               /\ phase' = "loop"
               /\ TurnRaised(Appended) =>
                     /\ last.event.content = FallbackText
                     /\ ~last.event.end_call
                     /\ last.event.transfer_number = None ]_vars

\* A turn that raised after its tool events, followed by another answered turn.
C4_Witness ==
    \E i, k \in Frames :
        /\ i < k
        /\ IsTurnFrame(trace[i]) /\ IsTurnFrame(trace[k])
        /\ \E j \in Turn(i) : /\ IsEvent(trace[j], "tool_call_invocation")
                               /\ ~trace[j].event.arguments.is_dict
                               /\ trace[j].event.name = "end_call"
        /\ trace[TurnEnd(i)].event.content = FallbackText
        /\ IsEvent(trace[TurnEnd(k)], "response")

(***************************************************************************)
(* C5. Scheduling functions only propose.                                  *)
(***************************************************************************)
SchedulingFunctions ==
    {"book_appointment", "reschedule_appointment", "cancel_appointment"}

\* The results of scheduling functions that report success.
Proposals ==
    {i \in Events(trace, "tool_call_result") :
        FunctionOf(i) \in SchedulingFunctions /\ Succeeded(trace[i].event.content)}

\* C5: the appointments table is what it was at the start of the call; every
\* approvals row is pending; and there is exactly one approvals row per
\* scheduling call that reported success, so a call that reported failure,
\* and every other function, added none.
C5_OnlyPendingApprovals ==
    /\ appointments = InitialAppointments
    /\ \A i \in 1..Len(approvals) :
          approvals[i].status = "pending" /\ approvals[i].entity_type = "appointment"
    /\ Len(approvals) = Cardinality(Proposals)

\* A cancellation that succeeded and a booking that failed at its INSERT.
C5_Witness ==
    /\ Len(approvals) = 1
    /\ \E i \in Proposals : FunctionOf(i) = "cancel_appointment"
    /\ \E i \in Events(trace, "tool_call_result") :
          /\ FunctionOf(i) = "book_appointment"
          /\ ~Succeeded(trace[i].event.content)
          /\ \E f \in Frames :
                i \in Turn(f) /\ \E j \in Turn(f) : trace[j] = Query("approvals", TRUE)

(***************************************************************************)
(* C6. Repeated guardrail triggers.                                        *)
(***************************************************************************)
\* Max guardrail hits before transfer.
max_guardrail_triggers == 3

IsTransfer(entry) ==
    IsEvent(entry, "response") /\ entry.event.transfer_number # None

\* C6: once max_guardrail_triggers turns of the call have been blocked, every
\* later response_required or reminder_required turn ends in a transfer to a
\* human: it sends a response that carries a transfer number.
C6_TransferAfterCeiling ==
    \A i \in Frames :
        (/\ IsTurnFrame(trace[i])
         /\ Cardinality({b \in BlockedTurns : b < i}) >= max_guardrail_triggers)
        => \E j \in Turn(i) : IsTransfer(trace[j])

(***************************************************************************)
(* C7. end_call ends the call.                                             *)
(***************************************************************************)
\* C7: once a response with end_call true has been sent, nothing more is
\* sent on the call, whatever frames are read afterwards.
C7_NothingAfterEndCall ==
    \A i \in Events(trace, "response") :
        trace[i].event.end_call => \A j \in (i + 1)..Len(trace) : trace[j].io # "send"

(***************************************************************************)
(* C8. Order of the events of a tool turn.                                 *)
(***************************************************************************)
\* C8: a turn that holds a tool event holds exactly one tool_call_invocation
\* and exactly one tool_call_result; the result comes after the invocation
\* and carries its tool_call_id; the dispatch and its queries lie between
\* the two; and the turn has a response, every response of it after the
\* result.
C8_ToolEventOrder ==
    \A i \in Frames :
        LET invocations == {j \in Turn(i) : IsEvent(trace[j], "tool_call_invocation")}
            results == {j \in Turn(i) : IsEvent(trace[j], "tool_call_result")}
            responses == {j \in Turn(i) : IsEvent(trace[j], "response")}
            dispatched == {j \in Turn(i) : trace[j].io \in {"dispatch", "db"}}
        IN  (invocations # {} \/ results # {} \/ dispatched # {}) =>
              /\ Cardinality(invocations) = 1
              /\ Cardinality(results) = 1
              /\ \A a \in invocations, b \in results :
                    /\ a < b
                    /\ trace[a].event.tool_call_id = trace[b].event.tool_call_id
                    /\ \E d \in dispatched : trace[d] = Dispatch(trace[a].event.name)
                    /\ \A d \in dispatched : a < d /\ d < b
                    /\ responses # {}
                    /\ \A r \in responses : b < r

\* A booking that was proposed: invocation, queries, result, streamed chunks.
C8_Witness ==
    \E i \in Frames :
        /\ \E j \in Turn(i) : /\ IsEvent(trace[j], "tool_call_invocation")
                               /\ trace[j].event.name = "book_appointment"
        /\ \E j \in Turn(i) : trace[j] = Query("approvals", FALSE)
        /\ Cardinality({j \in Turn(i) : IsEvent(trace[j], "response")}) > 1

(***************************************************************************)
(* C9. Responses carry the id of the request they answer.                  *)
(***************************************************************************)
\* C9: every response sent in the turn of a frame answers a
\* response_required or reminder_required frame and carries the response_id
\* of that frame.
C9_ResponseIdEchoed ==
    \A i \in Frames :
        \A j \in Turn(i) :
            IsEvent(trace[j], "response") =>
                /\ IsTurnFrame(trace[i])
                /\ trace[j].event.response_id = trace[i].frame.response_id

\* Two answered turns with different ids, one of them streamed in chunks.
C9_Witness ==
    \E i, k \in Frames :
        /\ i < k
        /\ IsTurnFrame(trace[i]) /\ IsTurnFrame(trace[k])
        /\ trace[i].frame.response_id # trace[k].frame.response_id
        /\ Cardinality({j \in Turn(i) : IsEvent(trace[j], "response")}) > 1
        /\ \E j \in Turn(k) : IsEvent(trace[j], "response")

(***************************************************************************)
(* C10. The opening of a call.                                             *)
(***************************************************************************)
\* C10: nothing is sent or read before the connect step, and from then on
\* the trace starts with the config event followed by the greeting, a
\* response with response_id 0, content_complete true and end_call false,
\* and every frame read comes after these two.
C10_ConfigThenGreeting ==
    /\ phase = "accepted" => trace = <<>> /\ received = 0
    /\ phase # "accepted" =>
          /\ Len(trace) >= 2
          /\ IsEvent(trace[1], "config")
          /\ IsEvent(trace[2], "response")
          /\ trace[2].event.response_id = 0
          /\ trace[2].event.content = BEGIN_MESSAGE
          /\ trace[2].event.content_complete
          /\ ~trace[2].event.end_call
          /\ \A i \in Frames : i > 2

C10_Witness ==
    /\ phase = "loop"
    /\ received = MaxEvents
    /\ \E i \in Frames : \E j \in Turn(i) : trace[j].io = "send"

(***************************************************************************)
(* C11. What ends the message loop.                                        *)
(***************************************************************************)
\* C11: the message loop is left only by a transport disconnect: a step that
\* takes the session out of the loop reads no frame and sends nothing.
C11_LoopLeftOnlyByDisconnect ==
    [][ (phase = "loop" /\ phase' # "loop") => UNCHANGED <<received, trace>> ]_vars

(***************************************************************************)
(* C12. Results of the dispatcher.                                         *)
(***************************************************************************)
\* The function names execute_function has a branch for.
Catalog ==
    {"book_appointment", "check_availability", "reschedule_appointment",
     "cancel_appointment", "lookup_patient", "get_insurance_info",
     "transfer_to_human", "end_call"}

\* The frame in whose turn position i of the trace lies.
FrameOf(i) == CHOOSE f \in Frames : i \in Turn(f)

\* A query of the dispatch answered at position i raised.
BackendRaised(i) ==
    \E j \in Turn(FrameOf(i)) : trace[j].io = "db" /\ trace[j].raised

\* C12: the result of a dispatch whose function name is outside the catalog,
\* or during which a backend query raised, is a map with an error entry.
C12_FailureGivesErrorEntry ==
    \A i \in Events(trace, "tool_call_result") :
        (FunctionOf(i) \notin Catalog \/ BackendRaised(i))
        => "error" \in DOMAIN trace[i].event.content

(***************************************************************************)
(* HIPAAGuardrails.check_message on its own: a message is chosen, then the *)
(* function is applied to it.                                              *)
(***************************************************************************)
MaxPhrases == 3         \* phrases in one message

Range(seq) == { seq[i] : i \in 1..Len(seq) }

Phrases ==
    Range(emergency_patterns) \cup Range(diagnosis_patterns)
        \cup Range(coverage_guarantee_patterns)
        \cup {"hello", "CHEST PAIN", "Prescription", "Guarantee Coverage"}

Messages == { message \in SUBSET Phrases : Cardinality(message) <= MaxPhrases }

InitCheckMessage ==
    /\ Accepted
    /\ StreamAccepted
    /\ input \in Messages
    /\ returned = Pending
    /\ monitor = None

CallCheckMessage ==
    /\ ~returned.done
    /\ returned' = Return(check_message(input))
    /\ UNCHANGED <<session, input, monitor, twilio>>

NextCheckMessage == CallCheckMessage

SpecCheckMessage == InitCheckMessage /\ [][NextCheckMessage]_vars

Matches(patterns) == AnyMatch(patterns, lower(input))

Verdict(kind, severity) ==
    /\ returned.value.blocked
    /\ returned.value.guardrail_type = kind
    /\ returned.value.severity = severity

\* C13: the result of check_message is (blocked, emergency, high) when an
\* emergency pattern matches, whatever else matches; (blocked, diagnosis,
\* medium) when a diagnosis pattern and no emergency pattern matches;
\* (blocked, coverage_guarantee, low) when only coverage patterns match; and
\* not blocked when no pattern of the three families matches.
C13_StrictPriority ==
    returned.done =>
        /\ Matches(emergency_patterns) => Verdict("emergency", "high")
        /\ (~Matches(emergency_patterns) /\ Matches(diagnosis_patterns))
               => Verdict("diagnosis", "medium")
        /\ (~Matches(emergency_patterns) /\ ~Matches(diagnosis_patterns)
               /\ Matches(coverage_guarantee_patterns))
               => Verdict("coverage_guarantee", "low")
        /\ (~Matches(emergency_patterns) /\ ~Matches(diagnosis_patterns)
               /\ ~Matches(coverage_guarantee_patterns))
               => ~returned.value.blocked

\* A message matching all three families was classified as an emergency.
C13_Witness ==
    /\ returned.done
    /\ Matches(emergency_patterns)
    /\ Matches(diagnosis_patterns)
    /\ Matches(coverage_guarantee_patterns)
    /\ Verdict("emergency", "high")

(***************************************************************************)
(* services/guardrails.py: ConversationSafetyMonitor, on its own. The      *)
(* variable monitor is the object (self); input names the last method      *)
(* called with its arguments, returned is what that call returned.         *)
(* Timestamps of the trigger records are left out.                         *)
(***************************************************************************)
MaxTriggers == 5        \* calls of record_guardrail_trigger in one conversation
MaxEscalations == 3     \* ceiling of emotional_escalation_count in one conversation

frustration_indicators == <<"frustrated", "this is ridiculous", "never mind",
                            "transfer me to a human">>

Method(self, result) == [self |-> self, result |-> result]

\* A monitor that starts counting afresh once it has recommended a transfer.
record_guardrail_trigger_reset(self, guardrail_type) ==
    LET triggers == Append(self.guardrail_triggers, [type |-> guardrail_type])
    IN  IF Len(triggers) >= self.max_guardrail_triggers
        THEN Method([self EXCEPT !.guardrail_triggers = <<>>],
                    [action |-> "transfer", reason |-> "repeated_guardrail_triggers"])
        ELSE Method([self EXCEPT !.guardrail_triggers = triggers], [action |-> None])

record_guardrail_trigger(self, guardrail_type) ==
    LET triggers == Append(self.guardrail_triggers, [type |-> guardrail_type])
    IN  IF Len(triggers) >= self.max_guardrail_triggers
        THEN Method([self EXCEPT !.guardrail_triggers = triggers],
                    [action |-> "transfer", reason |-> "repeated_guardrail_triggers"])
        ELSE Method([self EXCEPT !.guardrail_triggers = triggers], [action |-> None])

\* The loop over frustration_indicators from pattern i on, count being
\* emotional_escalation_count so far: every matching pattern counts, and the
\* call returns as soon as the count has reached 2.
RECURSIVE EmotionLoop(_, _, _, _)
EmotionLoop(self, message_lower, i, count) ==
    IF i > Len(frustration_indicators)
    THEN Method([self EXCEPT !.emotional_escalation_count = count], [escalated |-> FALSE])
    ELSE IF re_search(frustration_indicators[i], message_lower)
    THEN IF count + 1 >= 2
         THEN Method([self EXCEPT !.emotional_escalation_count = count + 1],
                     [escalated |-> TRUE, action |-> "transfer"])
         ELSE EmotionLoop(self, message_lower, i + 1, count + 1)
    ELSE EmotionLoop(self, message_lower, i + 1, count)

check_emotional_state(self, message) ==
    EmotionLoop(self, lower(message), 1, self.emotional_escalation_count)

get_safety_summary(self) ==
    [guardrail_triggers |-> Len(self.guardrail_triggers),
     guardrail_types |-> [i \in 1..Len(self.guardrail_triggers) |->
                              self.guardrail_triggers[i].type],
     emotional_escalations |-> self.emotional_escalation_count,
     recommended_action |-> IF Len(self.guardrail_triggers) >= 3 THEN "transfer" ELSE None]

InitSafetyMonitor ==
    /\ Accepted
    /\ StreamAccepted
    /\ monitor = [guardrail_triggers |-> <<>>,
                  emotional_escalation_count |-> 0,
                  max_guardrail_triggers |-> 3]
    /\ input = [call |-> "__init__"]
    /\ returned = Pending

Returns(call, method) ==
    /\ input' = call
    /\ monitor' = method.self
    /\ returned' = Return(method.result)
    /\ UNCHANGED <<session, twilio>>

RecordGuardrailTrigger ==
    /\ Len(monitor.guardrail_triggers) < MaxTriggers
    /\ \E guardrail_type \in {"emergency", "diagnosis", "coverage_guarantee"} :
           Returns([call |-> "record_guardrail_trigger", guardrail_type |-> guardrail_type],
                   record_guardrail_trigger(monitor, guardrail_type))

CheckEmotionalState ==
    /\ monitor.emotional_escalation_count < MaxEscalations
    /\ \E message \in {{"hello"}, {"frustrated"}, {"Prescription", "never mind"},
                       {"this is ridiculous", "transfer me to a human"}} :
           Returns([call |-> "check_emotional_state", message |-> message],
                   check_emotional_state(monitor, message))

GetSafetySummary ==
    Returns([call |-> "get_safety_summary"],
            Method(monitor, get_safety_summary(monitor)))

NextSafetyMonitor ==
    \/ RecordGuardrailTrigger
    \/ CheckEmotionalState
    \/ GetSafetySummary

SpecSafetyMonitor == InitSafetyMonitor /\ [][NextSafetyMonitor]_vars

IsPrefix(s, t) == Len(s) <= Len(t) /\ SubSeq(t, 1, Len(s)) = s

\* The monitor recommends a transfer: its summary says so, and so does the
\* result of record_guardrail_trigger when that was the last call.
RecommendsTransfer ==
    /\ get_safety_summary(monitor).recommended_action = "transfer"
    /\ input.call = "get_safety_summary" => returned.value.recommended_action = "transfer"
    /\ input.call = "record_guardrail_trigger" => returned.value.action = "transfer"

\* C14: no call on the monitor removes or changes a recorded trigger, and
\* whenever the record holds 3 triggers or more after a call, the monitor
\* recommends a transfer (record_guardrail_trigger returns action transfer,
\* get_safety_summary recommends transfer), whatever was called.
C14_CeilingIsPermanent ==
    [][ /\ IsPrefix(monitor.guardrail_triggers, monitor'.guardrail_triggers)
        /\ Len(monitor'.guardrail_triggers) >= 3 => RecommendsTransfer'
      ]_vars

\* Four triggers are on record and the last call checked a benign message:
\* the summary still recommends a transfer.
C14_Witness ==
    /\ Len(monitor.guardrail_triggers) = 4
    /\ input = [call |-> "check_emotional_state", message |-> {"hello"}]
    /\ ~returned.value.escalated
    /\ get_safety_summary(monitor).recommended_action = "transfer"

(***************************************************************************)
(* A call in which the LLM asks for patient lookups, with and without a    *)
(* date of birth, and for the insurance details.                           *)
(***************************************************************************)
MaxLookupTurns == 2

LookupCompletions ==
    { Tool("lookup_patient", Args(Ann)),
      Tool("lookup_patient", Args([patient_name |-> "ann lee", patient_dob |-> "1985-05-05"])),
      Tool("lookup_patient", Args([patient_name |-> "ann lee"])),
      Tool("lookup_patient", Args([patient_name |-> "ann", patient_dob |-> ""])),
      Tool("lookup_patient", Args([patient_name |-> "", patient_dob |-> ""])),
      Tool("lookup_patient", Args([patient_dob |-> "1990-01-01"])),
      Tool("get_insurance_info", Args(Ann)),
      Tool("get_insurance_info",
           Args([patient_name |-> "bob ray", patient_dob |-> "1985-05-05"])) }

LookupTurn ==
    \E completion \in LookupCompletions, follow_up \in FollowUps, fail_at \in 0..1 :
        ResponseRequired("response_required", NextResponseId, <<Hello>>, completion,
                         follow_up, fail_at)

NextLookup ==
    \/ Connect
    \/ received < MaxLookupTurns /\ LookupTurn
    \/ Disconnect

SpecLookup == Init /\ [][NextLookup]_vars

\* The arguments of the invocation whose result the tool_call_result at i carries.
ArgumentsOf(i) ==
    LET j == CHOOSE j \in 1..i :
                 /\ IsEvent(trace[j], "tool_call_invocation")
                 /\ trace[j].event.tool_call_id = trace[i].event.tool_call_id
    IN  trace[j].event.arguments

Supplied(arguments, key) == arguments.is_dict /\ Get(arguments, key) \notin {None, ""}

\* C15: every lookup_patient that found a record (and so verified the session)
\* was given a non-empty patient name and a non-empty date of birth, and the
\* record it found has exactly that date of birth.
C15_VerifiedByNameAndDob ==
    \A i \in Events(trace, "tool_call_result") :
        (FunctionOf(i) = "lookup_patient" /\ Found(trace[i].event.content))
        => /\ Supplied(ArgumentsOf(i), "patient_name")
           /\ Supplied(ArgumentsOf(i), "patient_dob")
           /\ \E k \in 1..Len(patients) :
                 /\ patients[k].id = trace[i].event.content.patient_id
                 /\ patients[k].dob = _parse_date(Get(ArgumentsOf(i), "patient_dob"))

\* Position i of the trace lies in the turn of a frame, after an entry of
\* kind io of that turn.
PrecededInTurn(i, io) ==
    \E f \in Frames : i \in Turn(f) /\ \E j \in Turn(f) : j < i /\ trace[j].io = io

\* C16: every response event sent after an LLM call of its turn (other than
\* the fixed fallback) is preceded, in that turn, by a check_response.
C16_ResponsesScreened ==
    \A i \in Events(trace, "response") :
        (PrecededInTurn(i, "llm") /\ trace[i].event.content # FallbackText)
        => PrecededInTurn(i, "check_response")

(***************************************************************************)
(* HIPAAGuardrails.should_transfer_to_human on its own. A confidence is a  *)
(* fraction num/den, compared exactly.                                     *)
(***************************************************************************)
ConfidenceSteps == 10   \* confidences are the multiples of 1/ConfidenceSteps in [0, 1]

Fraction(num, den) == [num |-> num, den |-> den]

Less(a, b) == a.num * b.den < b.num * a.den

high_stakes_intents == <<"emergency", "complaint", "legal_question", "insurance_dispute",
                         "billing_dispute", "complex_scheduling">>

Transfer(reason) == [transfer |-> TRUE, reason |-> reason]

\* A policy that looks at the intent before the confidence.
should_transfer_to_human_intent_first(confidence, intent, explicit_request) ==
    IF explicit_request THEN Transfer("patient_request")
    ELSE IF intent \in Range(high_stakes_intents) THEN Transfer("high_stakes_intent")
    ELSE IF Less(confidence, Fraction(7, 10)) THEN Transfer("low_confidence")
    ELSE [transfer |-> FALSE, reason |-> None]

should_transfer_to_human(confidence, intent, explicit_request) ==
    IF explicit_request THEN Transfer("patient_request")
    ELSE IF Less(confidence, Fraction(7, 10)) THEN Transfer("low_confidence")
    ELSE IF intent \in Range(high_stakes_intents) THEN Transfer("high_stakes_intent")
    ELSE [transfer |-> FALSE, reason |-> None]

Confidences == { Fraction(k, ConfidenceSteps) : k \in 0..ConfidenceSteps }

Intents == Range(high_stakes_intents) \cup {"general_inquiry", "schedule_appointment"}

InitShouldTransfer ==
    /\ Accepted
    /\ StreamAccepted
    /\ input \in [confidence : Confidences, intent : Intents, explicit_request : BOOLEAN]
    /\ returned = Pending
    /\ monitor = None

CallShouldTransfer ==
    /\ ~returned.done
    /\ returned' = Return(should_transfer_to_human(input.confidence, input.intent,
                                                   input.explicit_request))
    /\ UNCHANGED <<session, input, monitor, twilio>>

NextShouldTransfer == CallShouldTransfer

SpecShouldTransfer == InitShouldTransfer /\ [][NextShouldTransfer]_vars

LowConfidence == Less(input.confidence, Fraction(7, 10))

HighStakes == input.intent \in Range(high_stakes_intents)

Decided(transfer, reason) ==
    returned.value.transfer = transfer /\ returned.value.reason = reason

\* C17: should_transfer_to_human decides by the first condition that holds, in
\* the order explicit request (reason patient_request), confidence below 0.7
\* (low_confidence), high-stakes intent (high_stakes_intent), and does not
\* transfer when none holds; confidence 0.5 with general_inquiry transfers as
\* low_confidence and confidence 0.9 with schedule_appointment does not transfer.
C17_FirstConditionDecides ==
    returned.done =>
        /\ input.explicit_request => Decided(TRUE, "patient_request")
        /\ (~input.explicit_request /\ LowConfidence) => Decided(TRUE, "low_confidence")
        /\ (~input.explicit_request /\ ~LowConfidence /\ HighStakes)
               => Decided(TRUE, "high_stakes_intent")
        /\ (~input.explicit_request /\ ~LowConfidence /\ ~HighStakes)
               => Decided(FALSE, None)
        /\ (/\ 2 * input.confidence.num = input.confidence.den
            /\ input.intent = "general_inquiry"
            /\ ~input.explicit_request) => Decided(TRUE, "low_confidence")
        /\ (/\ 10 * input.confidence.num = 9 * input.confidence.den
            /\ input.intent = "schedule_appointment"
            /\ ~input.explicit_request) => ~returned.value.transfer

\* A low-confidence answer on a high-stakes intent, without an explicit
\* request, was decided as low_confidence.
C17_Witness ==
    /\ returned.done
    /\ ~input.explicit_request
    /\ LowConfidence
    /\ HighStakes
    /\ Decided(TRUE, "low_confidence")

(***************************************************************************)
(* services/prompts.py: the system prompt composed by                      *)
(* PromptTemplateManager.get_system_prompt. A prompt is the record of the  *)
(* values interpolated into the fixed template text; an Optional value is  *)
(* a sequence of length 0 (None) or 1. input.templates is the manager's    *)
(* table of registered practices, input.now the hour of datetime.now().    *)
(***************************************************************************)
MaxBalance == 2         \* balances due are 0, 75, ..., 75 * MaxBalance cents

_default_practice_info ==
    [name |-> "Your Dental Practice", phone |-> "(555) 123-4567",
     address |-> "123 Main Street, Suite 100",
     hours |-> <<"Monday-Thursday: 8 AM to 5 PM", "Friday: 8 AM to 2 PM",
                 "Saturday-Sunday: Closed">>,
     providers |-> <<"Dr. Smith (General Dentist)", "Dr. Johnson (Orthodontist)">>]

\* A registered practice: no hours and no providers on file.
Lakeside ==
    [name |-> "Lakeside Dental", phone |-> "(555) 000-0001", address |-> "1 Lake Road",
     hours |-> <<>>, providers |-> <<>>]

format_hours(practice_info) ==
    IF practice_info.hours = <<>> THEN <<"Please call for our current hours.">>
    ELSE practice_info.hours

_get_time_of_day(hour) ==
    IF 5 <= hour /\ hour < 12 THEN "morning"
    ELSE IF 12 <= hour /\ hour < 17 THEN "afternoon"
    ELSE "evening"

\* f"{balance_due:.2f}": dollars and cents.
FormatBalance(cents) == <<cents \div 100, cents % 100>>

NoContext == [given |-> FALSE]

NoSection == [present |-> FALSE]

PatientSection(patient_context) ==
    [present |-> TRUE,
     name |-> patient_context.name,
     has_upcoming_appointment |-> patient_context.has_upcoming_appointment,
     next_appointment |-> IF patient_context.has_upcoming_appointment
                          THEN <<patient_context.upcoming_appointment_date>>
                          ELSE <<>>,
     balance_due |-> IF patient_context.balance_due # <<>>
                        /\ patient_context.balance_due[1] # 0
                     THEN FormatBalance(patient_context.balance_due[1])
                     ELSE <<>>,
     insurance_on_file |-> IF patient_context.insurance_on_file THEN "Yes" ELSE "No"]

Prompt(practice_info, current_time, patient_section) ==
    [name |-> practice_info.name, phone |-> practice_info.phone,
     address |-> practice_info.address, hours |-> format_hours(practice_info),
     providers_text |-> practice_info.providers,
     current_time |-> current_time, time_of_day |-> _get_time_of_day(current_time),
     patient_section |-> patient_section,
     focus |-> ""]

\* A prompt that includes the patient section of any context it is given.
get_system_prompt_any_context(practice_info, patient_context, current_intent, current_time) ==
    Prompt(practice_info, current_time,
           IF patient_context.given THEN PatientSection(patient_context) ELSE NoSection)

\* VoicePromptSystem.get_system_prompt
get_system_prompt(practice_info, patient_context, current_intent, current_time) ==
    Prompt(practice_info, current_time,
           IF patient_context.given /\ patient_context.verified
           THEN PatientSection(patient_context) ELSE NoSection)

intent_prompts ==
    {"appointment_booking", "appointment_reschedule", "appointment_cancel",
     "insurance_inquiry", "billing_inquiry", "emergency", "human_handoff", "closing"}

get_intent_prompt(intent) == IF intent \in intent_prompts THEN intent ELSE ""

\* PromptTemplateManager.get_system: the practice whose prompts serve the tenant.
get_system(templates, tenant_id) ==
    IF tenant_id \notin {None, ""} /\ tenant_id \in DOMAIN templates
    THEN templates[tenant_id]
    ELSE _default_practice_info

\* PromptTemplateManager.get_system_prompt
manager_get_system_prompt(templates, tenant_id, patient_context, current_intent, current_time) ==
    LET system == get_system(templates, tenant_id)
        base_prompt == get_system_prompt(system, patient_context, current_intent,
                                         current_time)
    IN  IF current_intent # None /\ get_intent_prompt(current_intent) # ""
        THEN [base_prompt EXCEPT !.focus = get_intent_prompt(current_intent)]
        ELSE base_prompt

PatientContexts ==
    [given : {TRUE},
     name : {None, "Ann Lee"},
     verified : BOOLEAN,
     has_upcoming_appointment : BOOLEAN,
     upcoming_appointment_date : {None, "Monday"},
     balance_due : {<<>>} \cup { <<75 * b>> : b \in 0..MaxBalance },
     insurance_on_file : BOOLEAN]

\* The tables register_practice can have built.
Templates ==
    { [tenant_id \in registered |-> Lakeside] : registered \in SUBSET {"", "t1"} }

InitSystemPrompt ==
    /\ Accepted
    /\ StreamAccepted
    /\ input \in [templates : Templates,
                  tenant_id : {None, "", "t1", "t2"},
                  patient_context : {NoContext} \cup PatientContexts,
                  current_intent : {None, "greeting", "insurance_inquiry"},
                  now : {4, 11, 12, 17}]
    /\ returned = Pending
    /\ monitor = None

CallGetSystemPrompt ==
    /\ ~returned.done
    /\ returned' = Return(manager_get_system_prompt(input.templates, input.tenant_id,
                              input.patient_context, input.current_intent, input.now))
    /\ UNCHANGED <<session, input, monitor, twilio>>

NextSystemPrompt == CallGetSystemPrompt

SpecSystemPrompt == InitSystemPrompt /\ [][NextSystemPrompt]_vars

Unverified(patient_context) == ~patient_context.given \/ ~patient_context.verified

Registered == input.tenant_id \in DOMAIN input.templates

\* C18: the prompt composed for a patient context that is not verified is the
\* prompt composed, for the same tenant, intent and time, for no patient
\* context at all; and the prompt of a tenant that has no registered practice
\* carries the default practice information.
C18_PromptIgnoresUnverified ==
    returned.done =>
        /\ Unverified(input.patient_context) =>
               returned.value = manager_get_system_prompt(input.templates, input.tenant_id,
                                    NoContext, input.current_intent, input.now)
        /\ ~Registered =>
               /\ returned.value.name = _default_practice_info.name
               /\ returned.value.phone = _default_practice_info.phone
               /\ returned.value.address = _default_practice_info.address
               /\ returned.value.hours = _default_practice_info.hours
               /\ returned.value.providers_text = _default_practice_info.providers

\* A prompt was composed for an unregistered tenant and an unverified caller
\* whose context names her and holds a balance and an appointment.
C18_Witness ==
    /\ returned.done
    /\ input.tenant_id = "t2"
    /\ input.patient_context.given
    /\ ~input.patient_context.verified
    /\ input.patient_context.name = "Ann Lee"
    /\ input.patient_context.has_upcoming_appointment
    /\ input.patient_context.balance_due = <<150>>
    /\ input.patient_context.insurance_on_file
    /\ returned.value.patient_section = NoSection

(***************************************************************************)
(* A call in which the LLM, asked again after a function has run, may      *)
(* answer with text, with another tool call, or fail.                      *)
(***************************************************************************)
MaxFollowUpTurns == 2

ChainCompletions ==
    { Tool("check_availability", Args([date |-> "2026-01-05"])),
      Tool("lookup_patient", Args(Ann)),
      Tool("get_weather", Args([city |-> "x"])),
      Tool("end_call", Args([message |-> Str("bye", 10)])),
      Tool("transfer_to_human", Args([reason |-> "asked"])),
      [kind |-> "content", content |-> Str("reply", CHUNK_SIZE)] }

ChainFollowUps ==
    FollowUps
    \cup { Tool("book_appointment",
                Args([patient_name |-> "ann lee", patient_dob |-> "1990-01-01",
                      preferred_date |-> "2026-01-05"])),
           Tool("end_call", Args([message |-> Str("bye", 10)])),
           [kind |-> "error"] }

ChainTurn ==
    \E completion \in ChainCompletions, follow_up \in ChainFollowUps, fail_at \in 0..1 :
        ResponseRequired("response_required", NextResponseId, <<Hello>>, completion,
                         follow_up, fail_at)

NextFollowUp ==
    \/ Connect
    \/ received < MaxFollowUpTurns /\ ChainTurn
    \/ Disconnect

SpecFollowUp == Init /\ [][NextFollowUp]_vars

TurnFrames == {f \in Frames : IsTurnFrame(trace[f])}

InTurn(f, io) == {i \in Turn(f) : trace[i].io = io}

TerminalFunctions == {"end_call", "transfer_to_human"}

\* C19: in the turn of every response_required or reminder_required frame
\* there is at most one dispatch and there are at most two LLM calls; a second
\* LLM call is made exactly when a function other than end_call and
\* transfer_to_human was dispatched, and it comes after that dispatch; after
\* it nothing is dispatched and no tool invocation is announced.
C19_OneDispatchOneFollowUp ==
    \A f \in TurnFrames :
        /\ Cardinality(InTurn(f, "dispatch")) <= 1
        /\ Cardinality(InTurn(f, "llm")) <= 2
        /\ Cardinality(InTurn(f, "llm")) = 2
           <=> \E d \in InTurn(f, "dispatch") : trace[d].name \notin TerminalFunctions
        /\ \A d \in InTurn(f, "dispatch") :
               /\ \E i \in InTurn(f, "llm") : i < d
               /\ \A i, j \in InTurn(f, "llm") : i < j => d < j
        /\ \A i \in Events(trace, "tool_call_invocation") \cap Turn(f) :
               \A j, k \in InTurn(f, "llm") : j < k => i < k

\* A turn whose follow-up answer was a tool call: check_availability was
\* dispatched, the LLM was called twice, and the turn closed with the empty
\* content of that answer and nothing else dispatched.
C19_Witness ==
    \E f \in TurnFrames :
        /\ \E d \in InTurn(f, "dispatch") : trace[d].name = "check_availability"
        /\ Cardinality(InTurn(f, "dispatch")) = 1
        /\ Cardinality(InTurn(f, "llm")) = 2
        /\ IsEvent(trace[TurnEnd(f)], "response")
        /\ StrLen(trace[TurnEnd(f)].event.content) = 0
        /\ trace[TurnEnd(f)].event.content_complete

\* The turns in which transfer_to_human was dispatched.
TransferTurns ==
    {f \in TurnFrames : \E d \in InTurn(f, "dispatch") : trace[d].name = "transfer_to_human"}

\* C20: once transfer_to_human has been dispatched the session flag
\* transfer_requested is set, and the turn of that dispatch has one LLM call
\* and exactly one response event, which is the last entry of the turn and
\* carries a transfer_number, content_complete true and end_call false.
C20_TransferEndsTurn ==
    \A f \in TransferTurns :
        /\ call_state.transfer_requested
        /\ Cardinality(InTurn(f, "llm")) = 1
        /\ Events(trace, "response") \cap Turn(f) = {TurnEnd(f)}
        /\ trace[TurnEnd(f)].event.transfer_number # None
        /\ trace[TurnEnd(f)].event.content_complete
        /\ ~trace[TurnEnd(f)].event.end_call

(***************************************************************************)
(* The streaming step of generate_llm_response on its own: a reply content *)
(* of some length is chosen, then sent.                                    *)
(***************************************************************************)
MaxContent == 260       \* longest reply content, in characters

InitStream ==
    /\ Accepted
    /\ StreamAccepted
    /\ input \in [content : { Str("reply", len) : len \in 0..MaxContent },
                  response_id : 1..2]
    /\ returned = Pending
    /\ monitor = None

CallStreamResponse ==
    /\ ~returned.done
    /\ returned' = Return(StreamResponse(input.content, input.response_id))
    /\ UNCHANGED <<session, input, monitor, twilio>>

NextStream == CallStreamResponse

SpecStream == InitStream /\ [][NextStream]_vars

Min(a, b) == IF a < b THEN a ELSE b

\* C21: content of at most 100 characters is sent as one response event with
\* the whole content and content_complete true; longer content of length L is
\* sent as ceil(L/50) response events, the i-th carrying characters
\* 50(i-1) .. min(50i, L) of the content, content_complete being true on the
\* last event only.
C21_ChunkedInOrder ==
    returned.done =>
        LET L == StrLen(input.content)
            sent == returned.value
            n == Len(sent)
        IN  /\ \A i \in 1..n : /\ IsEvent(sent[i], "response")
                               /\ sent[i].event.response_id = input.response_id
                               /\ sent[i].event.content.text = input.content.text
                               /\ sent[i].event.content_complete <=> i = n
            /\ L <= 100 => n = 1 /\ sent[1].event.content = input.content
            /\ L > 100 =>
                  /\ 50 * (n - 1) < L /\ L <= 50 * n
                  /\ \A i \in 1..n :
                        /\ sent[i].event.content.lo = input.content.lo + 50 * (i - 1)
                        /\ sent[i].event.content.hi = input.content.lo + Min(50 * i, L)

\* Content of 101 characters went out in three events, the last of one character.
C21_Witness ==
    /\ returned.done
    /\ StrLen(input.content) = 101
    /\ Len(returned.value) = 3
    /\ StrLen(returned.value[3].event.content) = 1
    /\ returned.value[3].event.content_complete

(***************************************************************************)
(* RetellService._calculate_slots on its own, as check_availability calls  *)
(* it (30-minute slots): working hours and the appointments table are      *)
(* chosen, then the slots of the day are computed for provider dr1.        *)
(***************************************************************************)
MaxQuarters == 6        \* the working day is at most MaxQuarters quarters of an hour long

Opening == 11 * 60

Booking(start_time, status, provider_id, date) ==
    [id |-> "b", patient_id |-> "p2", provider_id |-> provider_id, date |-> date,
     start_time |-> start_time, end_time |-> start_time + 30, duration |-> 30,
     status |-> status]

\* Appointments of dr1 on the day, starting on any 5-minute mark.
DayBookings ==
    { Booking(Opening + 5 * j, status, "dr1", "Monday") :
        j \in 0..(3 * MaxQuarters), status \in {"scheduled", "cancelled", "no_show"} }

\* Rows the query of _calculate_slots must not select.
OtherBookings ==
    { Booking(Opening, "scheduled", "dr2", "Monday"),
      Booking(Opening, "scheduled", "dr1", "Sunday") }

InitSlots ==
    /\ Accepted
    /\ StreamAccepted
    /\ input \in [start_time : {Opening},
                  end_time : { Opening + 15 * k : k \in 0..MaxQuarters },
                  appointments : { OtherBookings \cup {a, b} : a, b \in DayBookings }
                                     \cup {OtherBookings}]
    /\ returned = Pending
    /\ monitor = None

CallCalculateSlots ==
    /\ ~returned.done
    /\ returned' = Return(_calculate_slots(input.appointments, "dr1", "Monday",
                                           input.start_time, input.end_time, 30))
    /\ UNCHANGED <<session, input, monitor, twilio>>

NextSlots == CallCalculateSlots

SpecSlots == InitSlots /\ [][NextSlots]_vars

\* The start, in minutes after midnight, of the k-th slot returned.
SlotStart(k) == _combine_date_time(returned.value[k].time)

\* The appointments of the provider and day with none of the given statuses.
Standing(released) ==
    { a \in input.appointments :
        a.provider_id = "dr1" /\ a.date = "Monday" /\ a.status \notin released }

\* The start times open + 15k whose 30 minutes fit the working hours and
\* intersect no appointment of the set, intervals being half-open.
FreeStarts(blocking) ==
    { s \in input.start_time..input.end_time :
        /\ (s - input.start_time) % 15 = 0
        /\ s + 30 <= input.end_time
        /\ ~\E a \in blocking : s < a.end_time /\ s + 30 > a.start_time }

SlotsAre(starts) ==
    /\ { SlotStart(k) : k \in 1..Len(returned.value) } = starts
    /\ \A j, k \in 1..Len(returned.value) : j < k => SlotStart(j) < SlotStart(k)

\* C22 (as stated): the slots returned are, in increasing order, exactly the
\* start times open + 15k that fit the working hours and intersect no
\* appointment that is not cancelled.
C22_SlotsAvoidNonCancelled ==
    returned.done => SlotsAre(FreeStarts(Standing({"cancelled"})))

\* C22 (amended): the slots returned are, in increasing order, exactly the
\* start times open + 15k (k >= 0) with s + 30 <= close that intersect no
\* appointment of the provider that is neither cancelled nor a no-show; an
\* appointment that only touches a slot boundary does not exclude the slot.
C22_SlotsAvoidStanding ==
    returned.done => SlotsAre(FreeStarts(Standing({"cancelled", "no_show"})))

\* An appointment ends exactly where a returned slot starts, and another
\* starts exactly where that slot ends.
C22_Witness ==
    /\ returned.done
    /\ \E k \in 1..Len(returned.value) :
          /\ \E a \in Standing({"cancelled", "no_show"}) : a.end_time = SlotStart(k)
          /\ \E a \in Standing({"cancelled", "no_show"}) : a.start_time = SlotStart(k) + 30

\* The step just taken read a frame of the given interaction type.
Reads(interaction_type) ==
    /\ Len(Appended) >= 1
    /\ Appended[1].io = "recv"
    /\ Appended[1].frame.interaction_type = interaction_type

\* C23: the step that reads a frame failing JSON decoding appends nothing but
\* the receipt of that frame to the trace (no event is sent, nothing is
\* called), changes no variable of the session, and leaves the session in its
\* message loop.
C23_InvalidJsonDropped ==
    [][ Reads("<invalid json>") =>
            /\ Len(Appended) = 1
            /\ phase' = "loop"
            /\ UNCHANGED <<phase, call_state, request_data, next_uuid,
                           appointments, approvals>>
      ]_vars

\* A frame that failed decoding was followed by a response_required frame,
\* whose turn ended with a complete response.
C23_Witness ==
    /\ phase = "loop"
    /\ \E f \in TurnFrames :
          /\ f > 1
          /\ trace[f - 1].io = "recv"
          /\ trace[f - 1].frame.interaction_type = "<invalid json>"
          /\ IsEvent(trace[TurnEnd(f)], "response")
          /\ trace[TurnEnd(f)].event.content_complete

\* C24: a ping_pong frame is answered by exactly one ping_pong event and
\* changes no session field; a call_details frame sends nothing and changes
\* only call_details, to the frame's call; an update_only frame sends nothing
\* and changes only conversation_history, to the frame's transcript. None of
\* the three runs the guardrail check, the LLM or the dispatcher.
C24_HousekeepingFrames ==
    [][ /\ Reads("ping_pong") =>
              /\ Len(Appended) = 2
              /\ IsEvent(Appended[2], "ping_pong")
              /\ call_state' = call_state
        /\ Reads("call_details") =>
              /\ Len(Appended) = 1
              /\ call_state' = [call_state EXCEPT !.call_details = Appended[1].frame.call]
        /\ Reads("update_only") =>
              /\ Len(Appended) = 1
              /\ call_state' = [call_state EXCEPT
                                   !.conversation_history = Appended[1].frame.transcript]
        /\ (Reads("ping_pong") \/ Reads("call_details") \/ Reads("update_only")) =>
              /\ phase' = "loop"
              /\ UNCHANGED <<phase, next_uuid, appointments, approvals>>
      ]_vars

\* A call of a keep-alive and a transcript update: one ping_pong reply went
\* out, the transcript was stored, and nothing was asked of the guardrails,
\* the LLM or the dispatcher.
C24_Witness ==
    /\ \E i \in Frames : /\ trace[i].frame.interaction_type = "ping_pong"
                         /\ IsEvent(trace[i + 1], "ping_pong")
    /\ \E i \in Frames : /\ trace[i].frame.interaction_type = "update_only"
                         /\ trace[i].frame.transcript # <<>>
                         /\ call_state.conversation_history = trace[i].frame.transcript
    /\ Entries(trace, "llm") \cup Entries(trace, "check_message")
           \cup Entries(trace, "dispatch") = {}
    /\ Cardinality(Entries(trace, "send")) = 3

\* C25: no step removes, reorders or alters an entry of conversation_history:
\* its value before a step is a prefix of its value after the step.
C25_HistoryAppendOnly ==
    [][ IsPrefix(call_state.conversation_history, call_state'.conversation_history) ]_vars

\* C26: function_calls holds one entry per run of the dispatcher, in the order
\* of the runs, each naming the function that ran.
C26_FunctionCallsLogged ==
    LET dispatched == Entries(trace, "dispatch")
    IN  /\ Len(call_state.function_calls) = Cardinality(dispatched)
        /\ \A k \in 1..Len(call_state.function_calls) :
               \E d \in dispatched :
                   /\ Cardinality({e \in dispatched : e <= d}) = k
                   /\ call_state.function_calls[k].name = trace[d].name

Frustrated(message) == AnyMatch(frustration_indicators, lower(message))

Checked(call) == call.call = "check_emotional_state"

\* C27: check_emotional_state recommends a transfer from the second of two
\* consecutive frustrated messages on: a message checked right after a
\* message without frustration language does not trigger it, a first
\* frustrated message does not trigger it, and once it has recommended a
\* transfer it does so for the next message checked, whatever that message is.
C27_TwoConsecutiveThenAlways ==
    [][ (Checked(input) /\ Checked(input')) =>
            /\ returned.value.escalated => returned'.value.escalated
            /\ (~returned.value.escalated /\ ~Frustrated(input.message))
                   => ~returned'.value.escalated
            /\ (~returned.value.escalated /\ Frustrated(input.message)
                   /\ Frustrated(input'.message)) => returned'.value.escalated
      ]_vars

\* The pending approvals that propose a new appointment.
PendingCreations ==
    { k \in 1..Len(approvals) :
        approvals[k].status = "pending" /\ approvals[k].ai_rationale = "create" }

\* C28: no two pending approvals created by book_appointment for the same
\* provider and day propose intersecting time intervals.
C28_NoOverlappingProposals ==
    \A j, k \in PendingCreations :
        (/\ j < k
         /\ approvals[j].after_state.providerId = approvals[k].after_state.providerId
         /\ approvals[j].after_state.date = approvals[k].after_state.date)
        => ~(/\ approvals[j].after_state.startTime < approvals[k].after_state.endTime
             /\ approvals[j].after_state.endTime > approvals[k].after_state.startTime)

\* The results of lookup_patient sent before position i that found a record.
FoundBefore(i) ==
    { j \in Events(trace, "tool_call_result") :
        j < i /\ FunctionOf(j) = "lookup_patient" /\ Found(trace[j].event.content) }

\* The session's patient_id when the result at position i was produced.
SessionPatientAt(i) ==
    LET last == CHOOSE j \in FoundBefore(i) : \A k \in FoundBefore(i) : k <= j
    IN  trace[last].event.content.patient_id

\* C29: an insurance status returned by get_insurance_info is the status of
\* the patient the session was verified for, whatever name and date of birth
\* the call was given.
C29_InsuranceOfVerifiedPatient ==
    \A i \in Events(trace, "tool_call_result") :
        (/\ FunctionOf(i) = "get_insurance_info"
         /\ "has_insurance" \in DOMAIN trace[i].event.content
         /\ trace[i].event.content.message \in {"insurance on file", "no insurance on file"})
        => /\ FoundBefore(i) # {}
           /\ trace[i].event.content.has_insurance
                  = (SessionPatientAt(i) \in insurance_policies)

(***************************************************************************)
(* The Twilio media-stream agent (routers/voice_agent.py).                 *)
(*                                                                         *)
(* One action handles one frame read by websocket_endpoint to completion.  *)
(* What Whisper, the chat model, the extraction model and ElevenLabs       *)
(* answer is chosen by the environment. Twilio announces a stream once:    *)
(* "start" arrives while the endpoint has no conversation.                 *)
(***************************************************************************)
MaxMedia == 8           \* frames read from Twilio on one stream

BUFFER_THRESHOLD == 48000

\* Lengths of the audio a frame may carry: half the threshold, and just over it.
AudioChunks == {24000, 48001}

fields == <<"firstName", "lastName", "dateOfBirth", "phone", "email", "reasonForVisit">>

\* fields.index(field)
FieldIndex(field) == CHOOSE i \in 1..Len(fields) : fields[i] = field

ConversationState(call_sid, stream_sid) ==
    [call_sid |-> call_sid,
     stream_sid |-> stream_sid,
     audio_buffer |-> 0,
     conversation_history |-> <<>>,
     collected_data |-> [f \in { fields[i] : i \in 1..Len(fields) } |-> None],
     current_field |-> "firstName",
     is_processing |-> FALSE]

add_message(state, role) ==
    [state EXCEPT !.conversation_history = Append(@, role)]

\* all(self.collected_data.values()): None and "" are the false values.
is_complete(state) ==
    \A f \in DOMAIN state.collected_data : state.collected_data[f] \notin {None, ""}

\* str.strip() and str.lower() on the answers of the extraction model.
Strip(content) == IF content = " " THEN "" ELSE content

Lower(content) == IF content = "NULL" THEN "null" ELSE content

\* What the extraction model may answer; Raised is a failed request.
Raised == "raised"

ExtractionAnswers == {Raised, " ", "null", "NULL", "heard"}

_extract_data(state, answer) ==
    IF answer = Raised THEN state
    ELSE LET extracted_value == Strip(answer)
         IN  IF extracted_value # "" /\ Lower(extracted_value) # "null"
             THEN LET current_idx == FieldIndex(state.current_field)
                  IN  [state EXCEPT
                         !.collected_data[state.current_field] = extracted_value,
                         !.current_field = IF current_idx < Len(fields)
                                           THEN fields[current_idx + 1] ELSE @]
             ELSE state

\* process_with_llm: the state it leaves and the text it returns.
process_with_llm(state, chat_ok, answer) ==
    LET asked == add_message(state, "user")
    IN  IF chat_ok
        THEN [state |-> _extract_data(add_message(asked, "assistant"), answer),
              text |-> "response"]
        ELSE [state |-> asked, text |-> "apology"]

\* create_registration_and_send_sms: the registrations of the backend after the
\* post of the collected data; a post that fails or is refused creates none.
create_registration_and_send_sms(state, created) ==
    IF created
    THEN Append(registrations, [callSid |-> state.call_sid, data |-> state.collected_data])
    ELSE registrations

\* The audio frames written for the texts spoken, for those ElevenLabs voiced.
Spoken(texts, voiced) ==
    SelectSeq(texts, LAMBDA text : text \in voiced)

StreamStart ==
    /\ stream_phase = "accepted"
    /\ conversation = <<>>
    /\ \E voiced \in SUBSET {"greeting"} :
           media_sent' = media_sent \o Spoken(<<"greeting">>, voiced)
    /\ conversation' = <<ConversationState("CA1", "MZ1")>>
    /\ media_received' = media_received + 1
    /\ UNCHANGED <<stream_phase, registrations>>
    /\ UNCHANGED <<session, unit>>

\* A "media" frame before "start", or a frame of another kind: read and ignored.
StreamIgnored ==
    /\ stream_phase = "accepted"
    /\ media_received' = media_received + 1
    /\ UNCHANGED <<stream_phase, conversation, media_sent, registrations>>
    /\ UNCHANGED <<session, unit>>

\* A "media" frame whose audio leaves the buffer at or under the threshold.
StreamMediaBuffered ==
    /\ stream_phase = "accepted"
    /\ conversation # <<>>
    /\ ~conversation[1].is_processing
    /\ \E audio_chunk \in AudioChunks :
           /\ conversation[1].audio_buffer + audio_chunk <= BUFFER_THRESHOLD
           /\ conversation' = <<[conversation[1] EXCEPT !.audio_buffer = @ + audio_chunk]>>
    /\ media_received' = media_received + 1
    /\ UNCHANGED <<stream_phase, media_sent, registrations>>
    /\ UNCHANGED <<session, unit>>

\* A "media" frame that fills the buffer: transcribe, answer, register.
StreamMediaProcessed ==
    /\ stream_phase = "accepted"
    /\ conversation # <<>>
    /\ ~conversation[1].is_processing
    /\ \E audio_chunk \in AudioChunks, transcript \in {"", "words"},
          chat_ok \in BOOLEAN, answer \in ExtractionAnswers, created \in BOOLEAN,
          voiced \in SUBSET {"response", "apology", "completion"} :
           /\ conversation[1].audio_buffer + audio_chunk > BUFFER_THRESHOLD
           /\ LET cleared == [conversation[1] EXCEPT !.audio_buffer = 0]
                  turn == process_with_llm(cleared, chat_ok, answer)
              IN  IF transcript = ""
                  THEN /\ conversation' = <<cleared>>
                       /\ UNCHANGED <<media_sent, registrations>>
                  ELSE /\ conversation' = <<turn.state>>
                       /\ IF is_complete(turn.state)
                          THEN /\ registrations' =
                                     create_registration_and_send_sms(turn.state, created)
                               /\ media_sent' = media_sent
                                     \o Spoken(<<turn.text, "completion">>, voiced)
                          ELSE /\ media_sent' = media_sent \o Spoken(<<turn.text>>, voiced)
                               /\ UNCHANGED registrations
    /\ media_received' = media_received + 1
    /\ UNCHANGED stream_phase
    /\ UNCHANGED <<session, unit>>

\* A "stop" frame, a disconnect, or a frame the loop cannot decode.
StreamStop ==
    /\ stream_phase = "accepted"
    /\ stream_phase' = "closed"
    /\ UNCHANGED <<conversation, media_received, media_sent, registrations>>
    /\ UNCHANGED <<session, unit>>

NextVoiceAgent ==
    \/ media_received < MaxMedia /\ StreamStart
    \/ media_received < MaxMedia /\ StreamIgnored
    \/ media_received < MaxMedia /\ StreamMediaBuffered
    \/ media_received < MaxMedia /\ StreamMediaProcessed
    \/ StreamStop

SpecVoiceAgent == Init /\ [][NextVoiceAgent]_vars

\* C30: on one stream the registration of a call is posted at most once.
C30_RegistrationOnce ==
    \A j, k \in 1..Len(registrations) :
        registrations[j].callSid = registrations[k].callSid => j = k

====
